---- MODULE Spec2Model ----
(***************************************************************************)
(* State-machine model of vibe-notify: the debounced per-document idle     *)
(* detector (src/detection/chatIdleDetector.ts), the matcher predicate it  *)
(* consults (src/config.ts) and the host facilities it runs on (documents, *)
(* setTimeout/clearTimeout, the configuration store).                      *)
(*                                                                         *)
(* Time is discrete and kept as delays: a scheduled timer holds the time    *)
(* left until it is due, and every tick of the host clock shortens it.  A  *)
(* host timer may run its callback at any instant at or after it is due,   *)
(* never before, and always as a whole handler: handlers are atomic, as on *)
(* the single JavaScript thread.                                           *)
(*                                                                         *)
(* The command extraction (src/notifier.ts, extractCommands and its        *)
(* helpers) works on texts given character by character and is run alone   *)
(* under ExtractSpec.  The extension's handlers (extension.ts), the        *)
(* Notifier and the TaskRunner are run under ExtensionSpec, where idle     *)
(* events arrive as the detector would deliver them; a handler runs up to  *)
(* its first await on the host, and what follows the await is a step of    *)
(* its own.  The TerminalRunner with the host's terminals is run under     *)
(* TerminalSpec, and the detector on change notifications alone, each      *)
(* recorded with the detector it met, under NoticeSpec.                    *)
(***************************************************************************)
EXTENDS Integers, Sequences, FiniteSets, TLC

(* ------------------------------ bounds --------------------------------- *)
MaxSilence == 2
MaxChanges == 2
MaxBlocks == 2
MaxLines == 3
MaxShown == 2
MaxRuns == 2
MaxUnfinished == 1
\* the terminals the host ever opens
MaxTerminals == 2
\* the calls of TerminalRunner.run
MaxCalls == 2

(* --------------------------- host documents ---------------------------- *)
\* vscode.TextDocument: the attributes the matcher reads.  Two open buffers.
Documents ==
    [ a |-> [languageId |-> "chat",     scheme |-> "file", fileName |-> "session"],
      b |-> [languageId |-> "markdown", scheme |-> "file", fileName |-> "chat.md"] ]

Keys == DOMAIN Documents

\* the texts each buffer can hold
Texts == [a |-> {"p"}, b |-> {"", "x"}]

\* the text each buffer holds when the extension is activated
InitialText == [a |-> "p", b |-> ""]

(* --------------------------- src/config.ts ----------------------------- *)
\* A regular expression source, by what `new RegExp(src)` does with it:
\* it throws when the source is not valid, otherwise test() accepts a set
\* of strings.
AllStrings == {"chat", "markdown", "file", "session", "chat.md"}

ReChatLang  == [valid |-> TRUE,  accepts |-> {"chat"}]      \* '^(copilot-chat|chat)$'
ReMarkdown  == [valid |-> TRUE,  accepts |-> {"markdown"}]  \* '^markdown$'
ReAny       == [valid |-> TRUE,  accepts |-> AllStrings]    \* '.*'
ReTitleFlag == [valid |-> FALSE, accepts |-> {}]            \* '(?i)(chat|assistant|reply)'
ReTitleChat == [valid |-> TRUE,  accepts |-> {"chat.md"}]   \* 'chat|assistant|reply'

\* the default value of the chatMatchers setting
DefaultChatMatchers ==
    << [languageIdRegex |-> ReChatLang, schemeRegex |-> ReAny, titleRegex |-> ReAny],
       [languageIdRegex |-> ReMarkdown, schemeRegex |-> ReAny, titleRegex |-> ReTitleFlag] >>

\* a user setting: an entry with an invalid pattern, then a markdown entry
UserChatMatchers ==
    << [languageIdRegex |-> ReChatLang, schemeRegex |-> ReAny, titleRegex |-> ReAny],
       [languageIdRegex |-> ReMarkdown, schemeRegex |-> ReTitleFlag, titleRegex |-> ReAny],
       [languageIdRegex |-> ReMarkdown, schemeRegex |-> ReAny, titleRegex |-> ReTitleChat] >>

MatcherSettings == {DefaultChatMatchers, UserChatMatchers}

\* one pass of the try block of matchesChat: "threw", "match" or "nomatch"
MatcherOutcome(matcher, document) ==
    IF ~matcher.languageIdRegex.valid THEN "threw"
    ELSE IF ~matcher.schemeRegex.valid THEN "threw"
    ELSE IF ~matcher.titleRegex.valid THEN "threw"
    ELSE IF /\ document.languageId \in matcher.languageIdRegex.accepts
            /\ document.scheme \in matcher.schemeRegex.accepts
            /\ document.fileName \in matcher.titleRegex.accepts
         THEN "match"
         ELSE "nomatch"

\* (variant: the error of an invalid pattern ends the whole check)
RECURSIVE MatchesFromAbort(_, _, _)
MatchesFromAbort(matchers, i, document) ==
    IF i > Len(matchers) THEN FALSE
    ELSE IF MatcherOutcome(matchers[i], document) = "match" THEN TRUE
    ELSE IF MatcherOutcome(matchers[i], document) = "threw" THEN FALSE
    ELSE MatchesFromAbort(matchers, i + 1, document)

RECURSIVE MatchesFrom(_, _, _)
MatchesFrom(matchers, i, document) ==
    IF i > Len(matchers) THEN FALSE
    ELSE IF MatcherOutcome(matchers[i], document) = "match" THEN TRUE
    ELSE MatchesFrom(matchers, i + 1, document)

matchesChat(matchers, document) == MatchesFrom(matchers, 1, document)

(* ------------------ src/notifier.ts: command extraction ---------------- *)
\* A text is a sequence of characters (one-character strings), so that the
\* regular expressions of the extractor are modelled by what they match.
LowerCase == << "a","b","c","d","e","f","g","h","i","j","k","l","m",
                "n","o","p","q","r","s","t","u","v","w","x","y","z" >>
UpperCase == << "A","B","C","D","E","F","G","H","I","J","K","L","M",
                "N","O","P","Q","R","S","T","U","V","W","X","Y","Z" >>
Digits == {"0","1","2","3","4","5","6","7","8","9"}

Range(seq) == {seq[i] : i \in DOMAIN seq}

IsLetter(c) == c \in Range(LowerCase) \cup Range(UpperCase)       \* [a-zA-Z]
IsWordChar(c) == IsLetter(c) \/ c \in Digits \/ c = "_"           \* \w
IsSpace(c) == c \in {" ", "\t", "\n", "\r"}                       \* \s

\* String.prototype.toLowerCase
LowerChar(c) ==
    IF c \in Range(UpperCase)
    THEN LowerCase[CHOOSE i \in DOMAIN UpperCase : UpperCase[i] = c]
    ELSE c
toLowerCase(str) == [i \in DOMAIN str |-> LowerChar(str[i])]

\* str.substring(from) and str.substring(from, to), offsets counted from 0
substringFrom(str, from) == SubSeq(str, from + 1, Len(str))
substring(str, from, to) == SubSeq(str, from + 1, to)

\* str.startsWith(prefix), and prefix found at the 1-based position i
StartsAt(str, i, prefix) ==
    /\ i + Len(prefix) - 1 <= Len(str)
    /\ \A k \in DOMAIN prefix : str[i + k - 1] = prefix[k]
startsWith(str, prefix) == StartsAt(str, 1, prefix)

\* the first position >= i of str that does not satisfy the class (Len + 1
\* when the run reaches the end): where a greedy [class]* stops
RECURSIVE SkipSpace(_, _)
SkipSpace(str, i) ==
    IF i <= Len(str) /\ IsSpace(str[i]) THEN SkipSpace(str, i + 1) ELSE i
RECURSIVE SkipLetters(_, _)
SkipLetters(str, i) ==
    IF i <= Len(str) /\ IsLetter(str[i]) THEN SkipLetters(str, i + 1) ELSE i
RECURSIVE SkipWordChars(_, _)
SkipWordChars(str, i) ==
    IF i <= Len(str) /\ IsWordChar(str[i]) THEN SkipWordChars(str, i + 1) ELSE i

\* String.prototype.trim
RECURSIVE TrimEnd(_)
TrimEnd(str) ==
    IF Len(str) > 0 /\ IsSpace(str[Len(str)]) THEN TrimEnd(SubSeq(str, 1, Len(str) - 1))
    ELSE str
trim(str) == TrimEnd(SubSeq(str, SkipSpace(str, 1), Len(str)))

\* content.split('\n'): the lines, at least one
RECURSIVE SplitFrom(_, _, _)
SplitFrom(str, i, line) ==
    IF i > Len(str) THEN << line >>
    ELSE IF str[i] = "\n" THEN << line >> \o SplitFrom(str, i + 1, << >>)
    ELSE SplitFrom(str, i + 1, Append(line, str[i]))
split(str) == SplitFrom(str, 1, << >>)

\* commands.join(' ')
RECURSIVE join(_)
join(strs) ==
    IF strs = << >> THEN << >>
    ELSE IF Len(strs) = 1 THEN strs[1]
    ELSE strs[1] \o << " " >> \o join(Tail(strs))

\* the backquote character, which a TLA+ string cannot hold
Backquote == "BACKQUOTE"
Fence == << Backquote, Backquote, Backquote >>

\* the least member of a non-empty set of positions
Min(positions) == CHOOSE k \in positions : \A other \in positions : k <= other

\* the first position >= i where Fence starts, 0 when there is none
FindFence(text, i) ==
    LET found == {k \in i..Len(text) : StartsAt(text, k, Fence)}
    IN  IF found = {} THEN 0 ELSE Min(found)

\* fencedBlockRegex = /```([a-zA-Z]*)?\n([\s\S]*?)```/ tried at position i:
\* << >> when it does not match there, otherwise the match
\* [index, language (group 1), body (group 2), next (lastIndex, 1-based)]
\* (variant: a fence that is never closed runs to the end of the text)
FenceMatchAtOpenEnded(text, i) ==
    IF ~StartsAt(text, i, Fence) THEN << >>
    ELSE
        LET k == SkipLetters(text, i + 3)
        IN  IF k > Len(text) \/ text[k] # "\n" THEN << >>
            ELSE LET j == FindFence(text, k + 1)
                     close == IF j = 0 THEN Len(text) + 1 ELSE j
                 IN  << [index    |-> i - 1,
                         language |-> SubSeq(text, i + 3, k - 1),
                         body     |-> SubSeq(text, k + 1, close - 1),
                         next     |-> close + 3] >>

FenceMatchAt(text, i) ==
    IF ~StartsAt(text, i, Fence) THEN << >>
    ELSE
        LET k == SkipLetters(text, i + 3)
        IN  IF k > Len(text) \/ text[k] # "\n" THEN << >>
            ELSE LET j == FindFence(text, k + 1)
                 IN  IF j = 0 THEN << >>
                     ELSE << [index    |-> i - 1,
                              language |-> SubSeq(text, i + 3, k - 1),
                              body     |-> SubSeq(text, k + 1, j - 1),
                              next     |-> j + 3] >>

\* fencedBlockRegex.exec from lastIndex: the leftmost match at or after i
ExecFence(text, i) ==
    LET found == {k \in i..Len(text) : FenceMatchAt(text, k) # << >>}
    IN  IF found = {} THEN << >> ELSE FenceMatchAt(text, Min(found))

\* (variant: a block is kept whatever its content)
RECURSIVE ScanBlocksKeepEmpty(_, _)
ScanBlocksKeepEmpty(text, i) ==
    LET m == ExecFence(text, i) IN
    IF m = << >> THEN << >>
    ELSE << [language   |-> toLowerCase(m[1].language),
             content    |-> trim(m[1].body),
             startIndex |-> m[1].index,
             endIndex   |-> m[1].next - 1] >>
             \o ScanBlocksKeepEmpty(text, m[1].next)

\* the while loop of extractCommands: the blocks with non-empty trimmed content
RECURSIVE ScanBlocks(_, _)
ScanBlocks(text, i) ==
    LET m == ExecFence(text, i) IN
    IF m = << >> THEN << >>
    ELSE LET content == trim(m[1].body)
             block == [language   |-> toLowerCase(m[1].language),
                       content    |-> content,
                       startIndex |-> m[1].index,
                       endIndex   |-> m[1].next - 1]
         IN  (IF content # << >> THEN << block >> ELSE << >>)
                 \o ScanBlocks(text, m[1].next)

(* looksLikeShellCommands, notifier.ts 457-479 *)
PackageManagers ==   \* /^(npm|yarn|pnpm|bun)\s+/
    { << "n", "p", "m" >>,
      << "y", "a", "r", "n" >>,
      << "p", "n", "p", "m" >>,
      << "b", "u", "n" >> }
DevTools ==   \* /^(git|docker|kubectl)\s+/
    { << "g", "i", "t" >>,
      << "d", "o", "c", "k", "e", "r" >>,
      << "k", "u", "b", "e", "c", "t", "l" >> }
UnixCommands ==   \* /^(ls|cd|mkdir|rm|cp|mv|cat|grep|find|curl|wget)\b/
    { << "l", "s" >>,
      << "c", "d" >>,
      << "m", "k", "d", "i", "r" >>,
      << "r", "m" >>,
      << "c", "p" >>,
      << "m", "v" >>,
      << "c", "a", "t" >>,
      << "g", "r", "e", "p" >>,
      << "f", "i", "n", "d" >>,
      << "c", "u", "r", "l" >>,
      << "w", "g", "e", "t" >> }
WindowsCommands ==   \* /^(dir|copy|move|del|type)\b/
    { << "d", "i", "r" >>,
      << "c", "o", "p", "y" >>,
      << "m", "o", "v", "e" >>,
      << "d", "e", "l" >>,
      << "t", "y", "p", "e" >> }

\* /^(w1|w2|...)\s+/
StartsWithWordSpace(line, words) ==
    \E w \in words :
        /\ startsWith(line, w)
        /\ Len(line) > Len(w)
        /\ IsSpace(line[Len(w) + 1])

\* /^(w1|w2|...)\b/
StartsWithWordBoundary(line, words) ==
    \E w \in words :
        /\ startsWith(line, w)
        /\ (Len(line) = Len(w) \/ ~IsWordChar(line[Len(w) + 1]))

\* the first position >= i that is not in [a-zA-Z0-9_-]
RECURSIVE SkipNameChars(_, _)
SkipNameChars(line, i) ==
    IF i <= Len(line) /\ (IsWordChar(line[i]) \/ line[i] = "-")
    THEN SkipNameChars(line, i + 1) ELSE i

\* /^[a-zA-Z][a-zA-Z0-9_-]*\s+/
GenericCommand(line) ==
    /\ Len(line) > 0
    /\ IsLetter(line[1])
    /\ LET k == SkipNameChars(line, 2) IN k <= Len(line) /\ IsSpace(line[k])

\* /^\$\s+/
DollarPrompt(line) == Len(line) >= 2 /\ line[1] = "$" /\ IsSpace(line[2])

\* /^PS\s*>\s*/
PowerShellPrompt(line) ==
    /\ startsWith(line, << "P", "S" >>)
    /\ LET k == SkipSpace(line, 3) IN k <= Len(line) /\ line[k] = ">"

\* /^C:\\.*>\s*/
CmdPrompt(line) ==
    /\ startsWith(line, << "C", ":", "\\" >>)
    /\ \E k \in 4..Len(line) : line[k] = ">"

\* /^>\s+/
GenericPrompt(line) == Len(line) >= 2 /\ line[1] = ">" /\ IsSpace(line[2])

\* shellPatterns.some(pattern => pattern.test(line))
CommandLike(line) ==
    \/ StartsWithWordSpace(line, PackageManagers)
    \/ StartsWithWordSpace(line, DevTools)
    \/ StartsWithWordBoundary(line, UnixCommands)
    \/ StartsWithWordBoundary(line, WindowsCommands)
    \/ GenericCommand(line)
    \/ DollarPrompt(line)
    \/ PowerShellPrompt(line)
    \/ CmdPrompt(line)

\* content.split('\n').map(line => line.trim()).filter(line => line)
TrimmedLines(content) ==
    SelectSeq([i \in DOMAIN split(content) |-> trim(split(content)[i])],
              LAMBDA line : line # << >>)

\* (variant: half of the lines is enough)
looksLikeShellCommandsHalf(content) ==
    LET lines == TrimmedLines(content)
        commandLikeLines == SelectSeq(lines, CommandLike)
    IN  IF Len(lines) = 0 THEN FALSE
        ELSE 2 * Len(commandLikeLines) >= Len(lines)

\* commandLikeLines.length / lines.length > 0.5, the quotient of two
\* integers compared by cross-multiplication
looksLikeShellCommands(content) ==
    LET lines == TrimmedLines(content)
        commandLikeLines == SelectSeq(lines, CommandLike)
    IN  IF Len(lines) = 0 THEN FALSE
        ELSE 2 * Len(commandLikeLines) > Len(lines)

(* parseCommandsFromBlock, notifier.ts 484-514 *)
\* line.replace(/^\$\s+/, '')
StripDollarPrompt(line) ==
    IF DollarPrompt(line) THEN SubSeq(line, SkipSpace(line, 2), Len(line)) ELSE line

\* line.replace(/^PS\s*>\s*/, '')
StripPowerShellPrompt(line) ==
    IF PowerShellPrompt(line)
    THEN SubSeq(line, SkipSpace(line, SkipSpace(line, 3) + 1), Len(line))
    ELSE line

\* line.replace(/^C:\\.*>\s*/, ''): the greedy .* runs to the last '>'
StripCmdPrompt(line) ==
    IF CmdPrompt(line)
    THEN LET last == CHOOSE k \in 4..Len(line) :
                         /\ line[k] = ">"
                         /\ \A j \in (k + 1)..Len(line) : line[j] # ">"
         IN  SubSeq(line, SkipSpace(line, last + 1), Len(line))
    ELSE line

\* line.replace(/^>\s+/, '')
StripGenericPrompt(line) ==
    IF GenericPrompt(line) THEN SubSeq(line, SkipSpace(line, 2), Len(line)) ELSE line

\* the four replacements, in the order of the code
StripPrompts(line) ==
    StripGenericPrompt(StripCmdPrompt(StripPowerShellPrompt(StripDollarPrompt(line))))

\* /^(\s*\||\s*\+|\s*-|\s*\*|\s*>|\s*<)/
OutputMarker(line) ==
    LET k == SkipSpace(line, 1)
    IN  k <= Len(line) /\ line[k] \in {"|", "+", "-", "*", ">", "<"}

\* line.startsWith('#') || line.startsWith('//')
CommentLine(line) == startsWith(line, << "#" >>) \/ startsWith(line, << "/", "/" >>)

\* (variant: the output markers are looked for before the prompts are removed)
ParseLineMarkerFirst(rawLine) ==
    LET line == trim(rawLine) IN
    IF line = << >> \/ CommentLine(line) THEN << >>
    ELSE IF OutputMarker(line) THEN << >>
    ELSE LET cleaned == StripPrompts(line)
         IN  IF cleaned = << >> THEN << >> ELSE << cleaned >>

\* one pass of the for loop: the commands the line adds (none or one)
ParseLine(rawLine) ==
    LET line == trim(rawLine) IN
    IF line = << >> \/ CommentLine(line) THEN << >>
    ELSE LET cleaned == StripPrompts(line)
         IN  IF cleaned = << >> THEN << >>
             ELSE IF OutputMarker(cleaned) THEN << >>
             ELSE << cleaned >>

RECURSIVE ParseLines(_)
ParseLines(lines) ==
    IF lines = << >> THEN << >>
    ELSE ParseLine(Head(lines)) \o ParseLines(Tail(lines))

parseCommandsFromBlock(content) == ParseLines(split(content))

(* inferShellLanguage, notifier.ts 519-541 *)
PowerShellVerbs ==   \* /\b(get-|set-|new-|remove-|invoke-|test-|start-|stop-)/
    { << "g", "e", "t", "-" >>,
      << "s", "e", "t", "-" >>,
      << "n", "e", "w", "-" >>,
      << "r", "e", "m", "o", "v", "e", "-" >>,
      << "i", "n", "v", "o", "k", "e", "-" >>,
      << "t", "e", "s", "t", "-" >>,
      << "s", "t", "a", "r", "t", "-" >>,
      << "s", "t", "o", "p", "-" >> }
CmdWords ==   \* the plain words of /\b(dir|copy|move|del|type|echo\s+off|set\s+\w+=)/
    { << "d", "i", "r" >>,
      << "c", "o", "p", "y" >>,
      << "m", "o", "v", "e" >>,
      << "d", "e", "l" >>,
      << "t", "y", "p", "e" >> }
BashWords ==   \* /\b(ls|cd|mkdir|rm|cp|mv|cat|grep|find|chmod|chown)/
    { << "l", "s" >>,
      << "c", "d" >>,
      << "m", "k", "d", "i", "r" >>,
      << "r", "m" >>,
      << "c", "p" >>,
      << "m", "v" >>,
      << "c", "a", "t" >>,
      << "g", "r", "e", "p" >>,
      << "f", "i", "n", "d" >>,
      << "c", "h", "m", "o", "d" >>,
      << "c", "h", "o", "w", "n" >> }

\* \b before a word character: position i starts a word
WordStartAt(str, i) ==
    /\ i <= Len(str)
    /\ IsWordChar(str[i])
    /\ (i = 1 \/ ~IsWordChar(str[i - 1]))

\* /\b(w1|w2|...)/ found anywhere
HasWordPrefix(str, words) ==
    \E i \in DOMAIN str : WordStartAt(str, i) /\ \E w \in words : StartsAt(str, i, w)

\* /\$\w+\s*=/ found anywhere
HasVariableAssignment(str) ==
    \E i \in DOMAIN str :
        /\ str[i] = "$"
        /\ LET k == SkipWordChars(str, i + 1)
               j == SkipSpace(str, k)
           IN  k > i + 1 /\ j <= Len(str) /\ str[j] = "="

\* /\[.*\]/ found anywhere (a command holds no line break)
HasBrackets(str) ==
    \E i \in DOMAIN str : str[i] = "[" /\ \E j \in (i + 1)..Len(str) : str[j] = "]"

\* /\becho\s+off/ found anywhere
HasEchoOff(str) ==
    \E i \in DOMAIN str :
        /\ WordStartAt(str, i)
        /\ StartsAt(str, i, << "e", "c", "h", "o" >>)
        /\ i + 4 <= Len(str)
        /\ IsSpace(str[i + 4])
        /\ StartsAt(str, SkipSpace(str, i + 4), << "o", "f", "f" >>)

\* /\bset\s+\w+=/ found anywhere
HasSetVariable(str) ==
    \E i \in DOMAIN str :
        /\ WordStartAt(str, i)
        /\ StartsAt(str, i, << "s", "e", "t" >>)
        /\ i + 3 <= Len(str)
        /\ IsSpace(str[i + 3])
        /\ LET a == SkipSpace(str, i + 3)
               b == SkipWordChars(str, a)
           IN  b > a /\ b <= Len(str) /\ str[b] = "="

LangBash == << "b", "a", "s", "h" >>
LangPowerShell == << "p", "o", "w", "e", "r", "s", "h", "e", "l", "l" >>
LangCmd == << "c", "m", "d" >>

\* (variant: the CMD indicators are looked for first)
inferShellLanguageCmdFirst(commands) ==
    LET allCommands == toLowerCase(join(commands)) IN
    IF \/ HasWordPrefix(allCommands, CmdWords)
       \/ HasEchoOff(allCommands)
       \/ HasSetVariable(allCommands)
    THEN LangCmd
    ELSE IF \/ HasWordPrefix(allCommands, PowerShellVerbs)
            \/ HasVariableAssignment(allCommands)
            \/ HasBrackets(allCommands)
    THEN LangPowerShell
    ELSE LangBash

inferShellLanguage(commands) ==
    LET allCommands == toLowerCase(join(commands)) IN
    IF \/ HasWordPrefix(allCommands, PowerShellVerbs)
       \/ HasVariableAssignment(allCommands)
       \/ HasBrackets(allCommands)
    THEN LangPowerShell
    ELSE IF \/ HasWordPrefix(allCommands, CmdWords)
            \/ HasEchoOff(allCommands)
            \/ HasSetVariable(allCommands)
    THEN LangCmd
    ELSE IF HasWordPrefix(allCommands, BashWords)
    THEN LangBash
    ELSE LangBash

(* extractCommands, notifier.ts 366-452 *)
shellLanguages ==   \* notifier.ts 375
    { << "b", "a", "s", "h" >>,
      << "s", "h" >>,
      << "z", "s", "h" >>,
      << "p", "o", "w", "e", "r", "s", "h", "e", "l", "l" >>,
      << "p", "w", "s", "h" >>,
      << "c", "m", "d" >> }
GenericLanguages ==   \* notifier.ts 410
    { << "t", "e", "x", "t" >>,
      << "p", "l", "a", "i", "n" >>,
      << "t", "e", "r", "m", "i", "n", "a", "l" >>,
      << "c", "o", "n", "s", "o", "l", "e" >>,
      << "s", "h", "e", "l", "l" >> }
ExecutionKeywords ==   \* notifier.ts 419
    { << "r", "u", "n" >>,
      << "e", "x", "e", "c", "u", "t", "e" >>,
      << "c", "o", "m", "m", "a", "n", "d" >>,
      << "t", "e", "r", "m", "i", "n", "a", "l" >>,
      << "s", "h", "e", "l", "l" >>,
      << "t", "y", "p", "e" >>,
      << "e", "n", "t", "e", "r" >> }
LookbackChars == 200   \* text.substring(Math.max(0, block.startIndex - 200), ...)

\* languageHint: null; no tag is spelled like it, a tag holds letters only
Null == << "<null>" >>

Max(a, b) == IF a >= b THEN a ELSE b

\* /\b(run|execute|command|terminal|shell|type|enter)\b/i
HasExecutionKeyword(str) ==
    LET lower == toLowerCase(str) IN
    \E i \in DOMAIN lower :
        /\ WordStartAt(lower, i)
        /\ \E w \in ExecutionKeywords :
               /\ StartsAt(lower, i, w)
               /\ (i + Len(w) > Len(lower) \/ ~IsWordChar(lower[i + Len(w)]))

\* Stage A: blocks.filter(block => shellLanguages.includes(block.language))
ShellBlocks(blocks) ==
    SelectSeq(blocks, LAMBDA b : b.language \in shellLanguages)

\* Stage B: untagged or generically tagged blocks that look like shell
GenericBlocks(blocks) ==
    SelectSeq(SelectSeq(blocks, LAMBDA b : b.language = << >> \/ b.language \in GenericLanguages),
              LAMBDA b : looksLikeShellCommands(b.content))

\* Stage C: blocks of any tag preceded by an execution keyword that look
\* like shell
KeywordBlocks(text, blocks) ==
    SelectSeq(blocks, LAMBDA b :
        LET beforeBlock == substring(text, Max(0, b.startIndex - LookbackChars), b.startIndex)
        IN  HasExecutionKeyword(beforeBlock) /\ looksLikeShellCommands(b.content))

\* each stage runs only when the stages before it found nothing
CandidateBlocksMerged(text, blocks) ==
    ShellBlocks(blocks) \o GenericBlocks(blocks)

CandidateBlocks(text, blocks) ==
    IF ShellBlocks(blocks) # << >> THEN ShellBlocks(blocks)
    ELSE IF GenericBlocks(blocks) # << >> THEN GenericBlocks(blocks)
    ELSE KeywordBlocks(text, blocks)

\* recentTextOnly ? [candidateBlocks[candidateBlocks.length - 1]] : candidateBlocks
TargetBlocksFirst(candidateBlocks, recentTextOnly) ==
    IF recentTextOnly THEN << candidateBlocks[1] >> ELSE candidateBlocks

TargetBlocks(candidateBlocks, recentTextOnly) ==
    IF recentTextOnly THEN << candidateBlocks[Len(candidateBlocks)] >>
    ELSE candidateBlocks

EmptyResult == [commands |-> << >>, languageHint |-> Null, rawBlocks |-> << >>]

\* the for loop over targetBlocks: commands are appended, and the hint is
\* the tag of the first target block whose tag is a shell language
RECURSIVE ProcessBlocks(_, _)
ProcessBlocks(targetBlocks, result) ==
    IF targetBlocks = << >> THEN result
    ELSE LET b == Head(targetBlocks)
             commands == result.commands \o parseCommandsFromBlock(b.content)
             hint == IF result.languageHint = Null /\ b.language \in shellLanguages
                     THEN b.language ELSE result.languageHint
         IN  ProcessBlocks(Tail(targetBlocks),
                 [result EXCEPT !.commands = commands, !.languageHint = hint])

\* if (!result.languageHint && result.commands.length > 0) infer
ResolveHintInferred(result) ==
    IF result.commands # << >>
    THEN [result EXCEPT !.languageHint = inferShellLanguage(result.commands)]
    ELSE result

\* (variant: the hint is inferred even from no commands)
ResolveHintAlways(result) ==
    IF result.languageHint = Null
    THEN [result EXCEPT !.languageHint = inferShellLanguage(result.commands)]
    ELSE result

ResolveHint(result) ==
    IF result.languageHint = Null /\ result.commands # << >>
    THEN [result EXCEPT !.languageHint = inferShellLanguage(result.commands)]
    ELSE result

extractCommands(text, recentTextOnly) ==
    LET blocks == ScanBlocks(text, 1)
        candidateBlocks == CandidateBlocks(text, blocks)
        result == [EmptyResult EXCEPT !.rawBlocks = candidateBlocks]
    IN  IF candidateBlocks = << >> THEN result
        ELSE ResolveHint(ProcessBlocks(TargetBlocks(candidateBlocks, recentTextOnly), result))

\* extractCommandsFromDiff, notifier.ts 549-558
extractCommandsFromDiffWhole(oldText, newText) ==
    extractCommands(newText, TRUE)

extractCommandsFromDiff(oldText, newText) ==
    IF Len(newText) > Len(oldText)
    THEN extractCommands(substringFrom(newText, Len(oldText)), TRUE)
    ELSE extractCommands(newText, TRUE)

(* ------------------------------- state --------------------------------- *)
VARIABLES
    isEnabled,        \* ChatIdleDetector.isEnabled
    documentStates,   \* ChatIdleDetector.documentStates: key -> DocumentState
    disposed,         \* dispose() has run: the listeners are unhooked
    timers,           \* host: the scheduled, not cancelled, not yet run timeouts
    config,           \* host configuration store, section 'vibenotify'
    docs,             \* host: live text of each buffer
    emitted,          \* the emission of the last step (<<>> when it fired no event)
    hist,             \* history of each document, for stating the properties
    call,             \* the call of an extraction function being made: its arguments
    returned,         \* what the call returned, once it has
    lastExtractedCommands, \* extension.ts: the stored extraction, << >> for null
    notifications,    \* host: the notifications on screen, not yet answered
    shown,            \* how many idle events have been handled
    useTasks,         \* host configuration store, setting 'vibenotify.useTasks'
    taskCounter,      \* TaskRunner.taskCounter
    runningTasks,     \* TaskRunner.runningTasks: task name -> commands
    tasks,            \* host: the started tasks that have not both ended and been registered
    terminal,         \* host: the command lists sent to the named terminal
    handled,          \* the currentContent of the idle events handled so far
    ran,              \* what the action selected in the last step ran (<<>> when none)
    settled,          \* the task that ended and was registered in the last step (<<>> when none)
    terminals,        \* TerminalRunner.terminals: terminal name -> terminal
    windowTerminals,  \* host: every terminal ever opened, in order, with what it was sent
    sending,          \* the calls of TerminalRunner.run waiting in a delay
    calls,            \* how many times TerminalRunner.run has been called
    obtained,         \* the getOrCreateTerminal call of the last step (<<>> when none)
    skipped           \* the change notification without content changes of the last step
                      \* and the detector it met (<<>> when none)

detection == <<isEnabled, documentStates, disposed, timers, config, docs, emitted, hist>>
extraction == <<call, returned>>
handlers == <<lastExtractedCommands, notifications, shown, useTasks, taskCounter,
              runningTasks, tasks, terminal, handled, ran, settled>>
terminalRunner == <<terminals, windowTerminals, sending, calls, obtained>>
extension == <<handlers, terminalRunner, skipped>>
vars == <<detection, extraction, extension>>

NoTimer == << >>
NoText == "<none>"

Tracked == DOMAIN documentStates

TimersOf(key) == {t \in timers : t.key = key}

\* The Timeout object a setTimeout call for `key` returns: a handle that no
\* live timer has and no state holds.  Handles are named <<key, n>>.
FreshHandle(key) ==
    LET used == {t.id : t \in timers} \cup {documentStates[k].timeout : k \in Tracked}
        n == CHOOSE i \in 1..(Cardinality(used) + 1) :
                 /\ <<key, i>> \notin used
                 /\ \A j \in 1..(i - 1) : <<key, j>> \in used
    IN  <<key, n>>

TextLength(text) == Len(text)

getDocumentKey(d) == d

(* ----------------------- host timer primitives ------------------------- *)
clearTimeout(tm, handle) == {t \in tm : t.id # handle}

setTimeout(tm, handle, key, content, delay) ==
    tm \cup {[id |-> handle, key |-> key, content |-> content, remaining |-> delay]}

(* ------------------- src/detection/chatIdleDetector.ts ----------------- *)
\* The detector object as the handlers see it: its enabled flag, its map of
\* DocumentState and the host timers its handles refer to.
Detector == [isEnabled |-> isEnabled, states |-> documentStates, timers |-> timers]

\* new Map(), and the map without / with an entry
EmptyMap == [k \in {} |-> NoTimer]
MapDelete(m, key) == [k \in DOMAIN m \ {key} |-> m[k]]
MapSet(m, key, value) == [k \in DOMAIN m \cup {key} |-> IF k = key THEN value ELSE m[k]]

\* documentStates.set(documentKey, {...}) of the first tracked edit
\* (lastVersion, a copy of document.version that no handler reads, is left out)
InitialState(document, currentContent) ==
    [ timeout     |-> NoTimer,
      lastLength  |-> TextLength(currentContent),
      lastContent |-> currentContent,
      changeCount |-> 1,
      source      |-> document ]

\* (variant: the pending timeout is left running)
ClearExistingTimeoutSkipped(tm, state) == tm

\* the else branch: the pending timeout is cleared ...
ClearExistingTimeout(tm, state) ==
    IF state.timeout # NoTimer THEN clearTimeout(tm, state.timeout) ELSE tm

\* (variant: the cached content follows every processed edit)
UpdatedStateContent(state, document, currentContent) ==
    [state EXCEPT !.lastLength  = TextLength(currentContent),
                  !.lastContent = currentContent,
                  !.changeCount = state.changeCount + 1,
                  !.source      = document]

\* (variant: the edit is not counted)
UpdatedStateNoCount(state, document, currentContent) ==
    [state EXCEPT !.lastLength = TextLength(currentContent), !.source = document]

\* ... and the state updated in place
UpdatedState(state, document, currentContent) ==
    [state EXCEPT !.lastLength  = TextLength(currentContent),
                  !.changeCount = state.changeCount + 1,
                  !.source      = document]

\* (variant: the callback is given the content cached in the state)
ArmTimeoutCached(D, key, currentContent, silenceMs, handle) ==
    [D EXCEPT !.states = MapSet(D.states, key, [D.states[key] EXCEPT !.timeout = handle]),
              !.timers = setTimeout(D.timers, handle, key, D.states[key].lastContent,
                                    silenceMs)]

\* state.timeout = setTimeout(() => onDocumentIdle(key, currentContent), silenceMs)
ArmTimeout(D, key, currentContent, silenceMs, handle) ==
    [D EXCEPT !.states = MapSet(D.states, key, [D.states[key] EXCEPT !.timeout = handle]),
              !.timers = setTimeout(D.timers, handle, key, currentContent, silenceMs)]

\* (variant: a notification without content changes is processed)
ChangeIgnoredEmpty(D, matchers, document, nChanges) ==
    \/ ~D.isEnabled
    \/ ~matchesChat(matchers, Documents[document])

\* (variant: every edit with content changes is processed, matching or not)
ChangeIgnoredNoMatch(D, matchers, document, nChanges) ==
    \/ ~D.isEnabled
    \/ nChanges = 0

\* the guards of onTextDocumentChange: TRUE when the handler returns early
ChangeIgnored(D, matchers, document, nChanges) ==
    \/ ~D.isEnabled
    \/ ~matchesChat(matchers, Documents[document])
    \/ nChanges = 0

\* (variant: an edit does not restart a timeout that is already running)
onTextDocumentChangeNoReset(D, cfg, document, nChanges, currentContent, handle) ==
    IF ChangeIgnored(D, cfg.chatMatchers, document, nChanges) THEN D
    ELSE
        LET documentKey == getDocumentKey(document) IN
        IF documentKey \notin DOMAIN D.states
        THEN ArmTimeout([D EXCEPT !.states = MapSet(D.states, documentKey,
                                      InitialState(document, currentContent))],
                        documentKey, currentContent, cfg.silenceMs, handle)
        ELSE LET D1 == [D EXCEPT !.states = MapSet(D.states, documentKey,
                                     UpdatedState(D.states[documentKey], document,
                                                  currentContent))]
             IN  IF D.states[documentKey].timeout # NoTimer THEN D1
                 ELSE ArmTimeout(D1, documentKey, currentContent, cfg.silenceMs, handle)

onTextDocumentChange(D, cfg, document, nChanges, currentContent, handle) ==
    IF ChangeIgnored(D, cfg.chatMatchers, document, nChanges) THEN D
    ELSE
        LET documentKey == getDocumentKey(document)
            D1 == IF documentKey \notin DOMAIN D.states
                  THEN [D EXCEPT !.states =
                            MapSet(D.states, documentKey,
                                   InitialState(document, currentContent))]
                  ELSE [D EXCEPT !.timers = ClearExistingTimeout(D.timers, D.states[documentKey]),
                                 !.states = MapSet(D.states, documentKey,
                                       UpdatedState(D.states[documentKey], document,
                                                    currentContent))]
        IN  ArmTimeout(D1, documentKey, currentContent, cfg.silenceMs, handle)

\* (variant: a close drops every document's state)
onTextDocumentCloseAll(D, document) ==
    [D EXCEPT !.timers = {}, !.states = EmptyMap]

\* (variant: the state is dropped, its timeout left scheduled)
onTextDocumentCloseNoClear(D, document) ==
    [D EXCEPT !.states = MapDelete(D.states, getDocumentKey(document))]

onTextDocumentClose(D, document) ==
    LET documentKey == getDocumentKey(document) IN
    IF documentKey \in DOMAIN D.states
    THEN [D EXCEPT !.timers = ClearExistingTimeout(D.timers, D.states[documentKey]),
                   !.states = MapDelete(D.states, documentKey)]
    ELSE D

clearAllStates(D) ==
    [D EXCEPT !.timers = {t \in D.timers :
                             \A k \in DOMAIN D.states :
                                 D.states[k].timeout = NoTimer \/ D.states[k].timeout # t.id},
              !.states = EmptyMap]

\* (variant: the states and their timeouts outlive the disabling)
onConfigurationChangeKeep(D, cfg) == [D EXCEPT !.isEnabled = cfg.enabled]

\* (variant: every configuration change drops the pending timers and states)
onConfigurationChangeClear(D, cfg) ==
    clearAllStates([D EXCEPT !.isEnabled = cfg.enabled])

onConfigurationChange(D, cfg) ==
    LET wasEnabled == D.isEnabled
        D1 == [D EXCEPT !.isEnabled = cfg.enabled]
    IN  IF ~D1.isEnabled /\ wasEnabled THEN clearAllStates(D1) ELSE D1

\* (variant: disabling keeps the states and their timeouts)
setEnabledKeepStates(D, enabled) == [D EXCEPT !.isEnabled = enabled]

setEnabled(D, enabled) ==
    IF D.isEnabled = enabled THEN D
    ELSE LET D1 == [D EXCEPT !.isEnabled = enabled]
         IN  IF ~enabled THEN clearAllStates(D1) ELSE D1

\* the IdleEvent built by onDocumentIdle
IdleEventOf(state, currentContent) ==
    [ document             |-> state.source,
      reason               |-> "idle",
      previousContent      |-> state.lastContent,
      currentContent       |-> currentContent,
      changesSinceLastIdle |-> state.changeCount ]

\* (variant: the cached content is not replaced)
StateAfterIdleStale(state, currentContent) ==
    [state EXCEPT !.timeout = NoTimer, !.changeCount = 0]

\* the state onDocumentIdle leaves for the next round
StateAfterIdle(state, currentContent) ==
    [state EXCEPT !.timeout = NoTimer,
                  !.lastContent = currentContent,
                  !.changeCount = 0]

\* (variant: the state is dropped once its event has fired)
onDocumentIdleForget(D, documentKey, currentContent) ==
    IF documentKey \notin DOMAIN D.states
    THEN [detector |-> D, fired |-> << >>]
    ELSE [detector |-> [D EXCEPT !.states = MapDelete(D.states, documentKey)],
          fired    |-> << IdleEventOf(D.states[documentKey], currentContent) >>]

\* onDocumentIdle: the detector afterwards and the events fired (none or one)
onDocumentIdle(D, documentKey, currentContent) ==
    IF documentKey \notin DOMAIN D.states
    THEN [detector |-> D, fired |-> << >>]
    ELSE [detector |-> [D EXCEPT !.states = MapSet(D.states, documentKey,
                                     StateAfterIdle(D.states[documentKey], currentContent))],
          fired    |-> << IdleEventOf(D.states[documentKey], currentContent) >>]

\* (variant: the pending timeout is left scheduled)
triggerIdleForDocumentNoClear(D, document, liveText) ==
    IF ~D.isEnabled THEN [detector |-> D, fired |-> << >>]
    ELSE
        LET documentKey == getDocumentKey(document) IN
        IF documentKey \in DOMAIN D.states
        THEN onDocumentIdle(D, documentKey, liveText)
        ELSE [detector |-> D, fired |-> << >>]

triggerIdleForDocument(D, document, liveText) ==
    IF ~D.isEnabled THEN [detector |-> D, fired |-> << >>]
    ELSE
        LET documentKey == getDocumentKey(document) IN
        IF documentKey \in DOMAIN D.states
        THEN onDocumentIdle(
                 [D EXCEPT !.timers = ClearExistingTimeout(D.timers, D.states[documentKey])],
                 documentKey, liveText)
        ELSE [detector |-> D, fired |-> << >>]

dispose(D) == clearAllStates(D)

\* extension: handleConfigurationChange calls setEnabled(config.enabled) twice
handleConfigurationChange(D, cfg) == setEnabled(setEnabled(D, cfg.enabled), cfg.enabled)

(* ------------------------------ history -------------------------------- *)
\* hist[d], kept beside the program state to state the properties:
\*   edits        processed edits of d since its last idle event (or since
\*                its tracking began); when the tracking has ended, the
\*                count at its end
\*   age          host time elapsed since the most recent processed edit of
\*                d (counted up to armedSilence), while no idle event followed
\*   armedSilence config.silenceMs at the instant of that edit
\*   tracking     "never": no edit of d processed yet; "yes": an edit was
\*                processed and no close/disable/dispose of d came after it;
\*                "closed", "disabled", "disposed": what ended the tracking
\*   prevCurrent  currentContent of d's previous idle event while the tracking
\*                lasts, NoText otherwise
\*   firstContent the text of d right after the edit that began the tracking,
\*                until d's first idle event; NoText otherwise
NoHistory ==
    [edits |-> 0, age |-> 0, armedSilence |-> 0, tracking |-> "never",
     prevCurrent |-> NoText, firstContent |-> NoText]

Ended(h, how) ==
    IF h.tracking = "yes"
    THEN [NoHistory EXCEPT !.tracking = how, !.edits = h.edits]
    ELSE h

\* the processed edits of the round that is open
OpenEdits(h) == IF h.tracking = "yes" THEN h.edits ELSE 0

Edited(h, silenceMs, content) ==
    [h EXCEPT !.edits = OpenEdits(h) + 1, !.age = 0, !.armedSilence = silenceMs,
              !.tracking = "yes",
              !.firstContent = IF h.tracking = "yes" THEN h.firstContent ELSE content]

Fired(h, event) ==
    [h EXCEPT !.edits = 0, !.age = 0, !.armedSilence = 0,
              !.prevCurrent = event.currentContent, !.firstContent = NoText]

\* an edit the detector is to process: enabled, matching, with content changes
Processed(d, nChanges) ==
    /\ isEnabled
    /\ matchesChat(config.chatMatchers, Documents[d])
    /\ nChanges > 0

\* what a step that fires an idle event leaves in `emitted`: the event, what
\* fired it, and the document's history before the event
Emission(fired, byTimer, h) ==
    IF fired = << >> \/ disposed THEN << >>
    ELSE << [event |-> fired[1], byTimer |-> byTimer, edits |-> OpenEdits(h),
             age |-> h.age, armedSilence |-> h.armedSilence, prev |-> h.prevCurrent,
             first |-> h.firstContent] >>

(* ------------------------------ actions -------------------------------- *)
\* the values of the silenceMs setting: one time unit, and the longest delay
SilenceSettings == {1, MaxSilence}

\* no extraction function is being called
NoCall == [op |-> "none"]
NotReturned == [done |-> FALSE]
Returned(value) == [done |-> TRUE, value |-> value]

Configs ==
    [enabled : BOOLEAN, silenceMs : SilenceSettings, chatMatchers : MatcherSettings]

\* activate(): nothing extracted, nothing shown, no task started
ExtensionStart(setting) ==
    /\ lastExtractedCommands = << >>
    /\ notifications = {}
    /\ shown = 0
    /\ useTasks = setting
    /\ taskCounter = 0
    /\ runningTasks = EmptyMap
    /\ tasks = EmptyMap
    /\ terminal = << >>
    /\ handled = << >>
    /\ ran = << >>
    /\ settled = << >>
    /\ terminals = EmptyMap
    /\ windowTerminals = << >>
    /\ sending = EmptyMap
    /\ calls = 0
    /\ obtained = << >>
    /\ skipped = << >>

Init ==
    /\ config \in Configs
    /\ isEnabled = config.enabled
    /\ documentStates = EmptyMap
    /\ disposed = FALSE
    /\ timers = {}
    /\ docs = [d \in Keys |-> [text |-> InitialText[d]]]
    /\ emitted = << >>
    /\ hist = [d \in Keys |-> NoHistory]
    /\ call = NoCall
    /\ returned = NotReturned
    /\ ExtensionStart(TRUE)

Install(D) ==
    /\ isEnabled' = D.isEnabled
    /\ documentStates' = D.states
    /\ timers' = D.timers

\* the host changes buffer d (or only its dirty state, nChanges = 0) and
\* delivers onDidChangeTextDocument
DocumentChanges(d, text, nChanges) ==
    /\ ~disposed
    /\ Processed(d, nChanges) => OpenEdits(hist[d]) < MaxChanges
    /\ LET newDoc == IF nChanges > 0 THEN [text |-> text] ELSE docs[d]
       IN  /\ docs' = [docs EXCEPT ![d] = newDoc]
           /\ Install(onTextDocumentChange(Detector, config, d, nChanges,
                                           newDoc.text, FreshHandle(getDocumentKey(d))))
    /\ hist' = IF Processed(d, nChanges)
               THEN [hist EXCEPT ![d] = Edited(hist[d], config.silenceMs, text)]
               ELSE hist
    /\ emitted' = << >>
    /\ UNCHANGED <<disposed, config, extraction>>

TextDocumentChange(d, text, nChanges) ==
    DocumentChanges(d, text, nChanges) /\ UNCHANGED extension

\* the host closes buffer d and delivers onDidCloseTextDocument
TextDocumentClose(d) ==
    /\ ~disposed
    /\ Install(onTextDocumentClose(Detector, d))
    /\ hist' = [hist EXCEPT ![d] = Ended(hist[d], "closed")]
    /\ emitted' = << >>
    /\ UNCHANGED <<disposed, config, docs, extraction, extension>>

\* the user changes one setting: the detector's listener runs, then the
\* extension's
ConfigurationChange(cfg) ==
    /\ ~disposed
    /\ cfg # config
    /\ \/ cfg.silenceMs = config.silenceMs /\ cfg.chatMatchers = config.chatMatchers
       \/ cfg.enabled = config.enabled /\ cfg.chatMatchers = config.chatMatchers
       \/ cfg.enabled = config.enabled /\ cfg.silenceMs = config.silenceMs
    /\ config' = cfg
    /\ LET D == handleConfigurationChange(onConfigurationChange(Detector, cfg), cfg)
       IN  /\ Install(D)
           /\ hist' = IF isEnabled /\ ~D.isEnabled
                      THEN [d \in Keys |-> Ended(hist[d], "disabled")]
                      ELSE hist
    /\ emitted' = << >>
    /\ UNCHANGED <<disposed, docs, extraction, extension>>

\* startMonitoring / stopMonitoring
SetEnabled(enabled) ==
    /\ enabled # isEnabled
    /\ LET D == setEnabled(Detector, enabled)
       IN  /\ Install(D)
           /\ hist' = IF isEnabled /\ ~D.isEnabled
                      THEN [d \in Keys |-> Ended(hist[d], "disabled")]
                      ELSE hist
    /\ emitted' = << >>
    /\ UNCHANGED <<disposed, config, docs, extraction, extension>>

\* a host timer whose delay has elapsed runs its callback
TimerRuns(t) ==
    /\ t.remaining = 0
    /\ LET r == onDocumentIdle([Detector EXCEPT !.timers = timers \ {t}], t.key, t.content)
       IN  /\ Install(r.detector)
           /\ emitted' = Emission(r.fired, TRUE, hist[t.key])
           /\ hist' = IF r.fired # << >> /\ ~disposed
                      THEN [hist EXCEPT ![t.key] = Fired(hist[t.key], r.fired[1])]
                      ELSE hist
    /\ UNCHANGED <<disposed, config, docs, extraction>>

TimerFire(t) == TimerRuns(t) /\ UNCHANGED extension

\* triggerIdleForDocument(document)
TriggerIdle(d) ==
    /\ LET r == triggerIdleForDocument(Detector, d, docs[d].text)
       IN  /\ Install(r.detector)
           /\ emitted' = Emission(r.fired, FALSE, hist[d])
           /\ hist' = IF r.fired # << >> /\ ~disposed
                      THEN [hist EXCEPT ![d] = Fired(hist[d], r.fired[1])]
                      ELSE hist
    /\ UNCHANGED <<disposed, config, docs, extraction, extension>>

\* deactivate(): dispose()
Dispose ==
    /\ ~disposed
    /\ disposed' = TRUE
    /\ Install(dispose(Detector))
    /\ hist' = [d \in Keys |-> Ended(hist[d], "disposed")]
    /\ emitted' = << >>
    /\ UNCHANGED <<config, docs, extraction, extension>>

\* the host clock advances by one unit
Elapse(delay) == IF delay > 0 THEN delay - 1 ELSE 0

ClockTicks ==
    /\ timers' = {[t EXCEPT !.remaining = Elapse(t.remaining)] : t \in timers}
    /\ hist' = [d \in Keys |->
                    IF OpenEdits(hist[d]) > 0 /\ hist[d].age < hist[d].armedSilence
                    THEN [hist[d] EXCEPT !.age = hist[d].age + 1]
                    ELSE hist[d]]
    /\ emitted' = << >>
    /\ UNCHANGED <<isEnabled, documentStates, disposed, config, docs, extraction>>

Tick == ClockTicks /\ UNCHANGED extension

(* ------------- the detector, on change notifications alone ------------- *)
\* a change notification with the detector it meets, when it carries no
\* content changes
Skipped(d, nChanges) ==
    IF nChanges = 0
    THEN << [document |-> d, isEnabled |-> isEnabled, states |-> documentStates,
             timers |-> timers] >>
    ELSE << >>

\* the host delivers onDidChangeTextDocument for buffer d
Notice(d, text, nChanges) ==
    /\ DocumentChanges(d, text, nChanges)
    /\ skipped' = Skipped(d, nChanges)
    /\ UNCHANGED <<handlers, terminalRunner>>

NoticeTimerFire(t) ==
    /\ TimerRuns(t)
    /\ skipped' = << >>
    /\ UNCHANGED <<handlers, terminalRunner>>

NoticeTick ==
    /\ ClockTicks
    /\ skipped' = << >>
    /\ UNCHANGED <<handlers, terminalRunner>>

Next ==
    \/ \E d \in Keys, nChanges \in 0..1 :
           \E text \in Texts[d] : TextDocumentChange(d, text, nChanges)
    \/ \E d \in Keys : TextDocumentClose(d)
    \/ \E cfg \in Configs : ConfigurationChange(cfg)
    \/ \E enabled \in BOOLEAN : SetEnabled(enabled)
    \/ \E t \in timers : TimerFire(t)
    \/ \E d \in Keys : TriggerIdle(d)
    \/ Dispose
    \/ Tick

Spec == Init /\ [][Next]_vars

NoticeNext ==
    \/ \E d \in Keys, nChanges \in 0..1 :
           \E text \in Texts[d] : Notice(d, text, nChanges)
    \/ \E t \in timers : NoticeTimerFire(t)
    \/ NoticeTick

NoticeSpec == Init /\ [][NoticeNext]_vars

(* ------------------ inputs of the extraction functions ----------------- *)
\* pieces of chat text; a text is a run of at most MaxBlocks of them
\* prose with an execution keyword, then a bash block of two commands: Sure, run this:\n<fence>bash\nnpm install\nnpm run build\n<fence>\n
KeywordBash ==
    << "S", "u", "r", "e", ",", " ", "r", "u", "n", " ", "t", "h", "i", "s", ":", "\n",
       Backquote, Backquote, Backquote, "b", "a", "s", "h", "\n",
       "n", "p", "m", " ", "i", "n", "s", "t", "a", "l", "l", "\n",
       "n", "p", "m", " ", "r", "u", "n", " ", "b", "u", "i", "l", "d", "\n",
       Backquote, Backquote, Backquote, "\n" >>
\* a powershell block whose command reads like Unix: <fence>powershell\nls -la\n<fence>\n
PowerShellUnix ==
    << Backquote, Backquote, Backquote, "p", "o", "w", "e", "r", "s", "h", "e", "l", "l", "\n",
       "l", "s", " ", "-", "l", "a", "\n",
       Backquote, Backquote, Backquote, "\n" >>
\* an untagged block that looks like shell: <fence>\nnpm install\n<fence>\n
Untagged ==
    << Backquote, Backquote, Backquote, "\n",
       "n", "p", "m", " ", "i", "n", "s", "t", "a", "l", "l", "\n",
       Backquote, Backquote, Backquote, "\n" >>
\* a fish block: <fence>fish\nnpm install\n<fence>\n
FishBlock ==
    << Backquote, Backquote, Backquote, "f", "i", "s", "h", "\n",
       "n", "p", "m", " ", "i", "n", "s", "t", "a", "l", "l", "\n",
       Backquote, Backquote, Backquote, "\n" >>
\* a bash block holding only a comment: <fence>bash\n# note\n<fence>\n
CommentOnly ==
    << Backquote, Backquote, Backquote, "b", "a", "s", "h", "\n",
       "#", " ", "n", "o", "t", "e", "\n",
       Backquote, Backquote, Backquote, "\n" >>
\* a block of white space: <fence>sh\n \n<fence>\n
Blank ==
    << Backquote, Backquote, Backquote, "s", "h", "\n",
       " ", "\n",
       Backquote, Backquote, Backquote, "\n" >>
\* prose with an execution keyword, then a js block that looks like shell: Now type:\n<fence>js\nnode app\n<fence>\n
KeywordJs ==
    << "N", "o", "w", " ", "t", "y", "p", "e", ":", "\n",
       Backquote, Backquote, Backquote, "j", "s", "\n",
       "n", "o", "d", "e", " ", "a", "p", "p", "\n",
       Backquote, Backquote, Backquote, "\n" >>
\* a js block that does not look like shell: <fence>js\nx=1\n<fence>\n
JsCode ==
    << Backquote, Backquote, Backquote, "j", "s", "\n",
       "x", "=", "1", "\n",
       Backquote, Backquote, Backquote, "\n" >>
\* a generically tagged block with a prompt marker: <fence>text\n$ git pull\n<fence>\n
TextPrompt ==
    << Backquote, Backquote, Backquote, "t", "e", "x", "t", "\n",
       "$", " ", "g", "i", "t", " ", "p", "u", "l", "l", "\n",
       Backquote, Backquote, Backquote, "\n" >>
\* a tag in mixed case: <fence>PowerShell\nGet-Item x\n<fence>\n
UpperTag ==
    << Backquote, Backquote, Backquote, "P", "o", "w", "e", "r", "S", "h", "e", "l", "l", "\n",
       "G", "e", "t", "-", "I", "t", "e", "m", " ", "x", "\n",
       Backquote, Backquote, Backquote, "\n" >>
\* prose without a fence: Done.\n
Prose ==
    << "D", "o", "n", "e", ".", "\n" >>
\* a fence that is never closed: <fence>bash\nnpm install\n
Unclosed ==
    << Backquote, Backquote, Backquote, "b", "a", "s", "h", "\n",
       "n", "p", "m", " ", "i", "n", "s", "t", "a", "l", "l", "\n" >>
\* an untagged block holding only a prompt: <fence>\nPS>\n<fence>\n
BarePrompt ==
    << Backquote, Backquote, Backquote, "\n",
       "P", "S", ">", "\n",
       Backquote, Backquote, Backquote, "\n" >>

Segments ==
    { BarePrompt,
      KeywordBash,
      PowerShellUnix,
      Untagged,
      FishBlock,
      CommentOnly,
      Blank,
      KeywordJs,
      JsCode,
      TextPrompt,
      UpperTag,
      Prose,
      Unclosed }

RECURSIVE TextsOf(_)
TextsOf(n) ==
    IF n = 0 THEN { << >> }
    ELSE LET shorter == TextsOf(n - 1)
         IN  shorter \cup { t \o piece : t \in shorter, piece \in Segments }

\* a js block that looks like shell, behind an execution keyword that
\* stands more than LookbackChars characters before it
JsShell ==
    << Backquote, Backquote, Backquote, "j", "s", "\n",
       "n", "o", "d", "e", " ", "a", "p", "p", "\n",
       Backquote, Backquote, Backquote, "\n" >>
FarKeywordJs ==
    << "R", "u", "n", ":", "\n" >> \o [i \in 1..LookbackChars |-> "."] \o << "\n" >> \o JsShell

InputTexts == TextsOf(MaxBlocks) \cup { FarKeywordJs }

\* the prompt markers a block line may start with, and commands without one
PromptMarkers ==
    { << "$", " " >>,                                        \* '$ '
      << "P", "S", ">", " " >>,                              \* 'PS> '
      << "C", ":", "\\", ">", " " >>,                       \* 'C:\> '
      << "C", ":", "\\", "a", "p", "p", ">", " " >>,     \* 'C:\app> '
      << ">", " " >> }                                       \* '> '
NpmInstall ==
    << "n", "p", "m", " ", "i", "n", "s", "t", "a", "l", "l" >>
GitPull ==
    << "g", "i", "t", " ", "p", "u", "l", "l" >>
DirToFile ==     \* 'dir > out.txt'
    << "d", "i", "r", " ", ">", " ", "o", "u", "t", ".", "t", "x", "t" >>
PlainCommands == { NpmInstall, GitPull, DirToFile }

ExtractCalls ==
    { [op |-> "extractCommands", text |-> t, recentTextOnly |-> r] :
          t \in InputTexts, r \in BOOLEAN }

DiffCalls ==
    { [op |-> "extractCommandsFromDiff", oldText |-> o, newText |-> n] :
          o \in TextsOf(1), n \in TextsOf(1) }
    \cup
    { [op |-> "extractCommandsFromDiff", oldText |-> o, newText |-> o \o piece] :
          o \in TextsOf(1), piece \in Segments }

ParseCalls ==
    { [op |-> "parseCommandsFromBlock", marker |-> m, command |-> c] :
          m \in PromptMarkers \cup { << >> }, c \in PlainCommands }

\* the lines a block can hold
Comment ==     \* a comment: '# note'
    << "#", " ", "n", "o", "t", "e" >>
SlashComment ==     \* a comment in the other style: '// note'
    << "/", "/", " ", "n", "o", "t", "e" >>
PromptComment ==     \* a comment typed at a prompt: '$ # setup'
    << "$", " ", "#", " ", "s", "e", "t", "u", "p" >>
OutputLine ==     \* a line of output: '- item'
    << "-", " ", "i", "t", "e", "m" >>
PromptOutput ==     \* a line of output behind a prompt: '$ - item'
    << "$", " ", "-", " ", "i", "t", "e", "m" >>
BlankLine ==     \* a line of white space: '  '
    << " ", " " >>
PaddedCommand ==     \* a command with white space around it: '  ls -la  '
    << " ", " ", "l", "s", " ", "-", "l", "a", " ", " " >>
PromptCommand ==     \* a command behind a prompt: '$ git pull'
    << "$", " ", "g", "i", "t", " ", "p", "u", "l", "l" >>
Word ==     \* a word that is no command shape: 'ok'
    << "o", "k" >>
\* the lines that have the shape of a command, the other lines that are not
\* empty, and all of them
ShellLines == { NpmInstall, PaddedCommand, PromptCommand, PromptComment, PromptOutput }
OtherLines == { Comment, SlashComment, OutputLine, Word }
BlockLines == ShellLines \cup OtherLines \cup { BlankLine }

\* the blocks of at most n lines drawn from `from`
RECURSIVE BlocksOf(_, _)
BlocksOf(from, n) ==
    IF n = 0 THEN { << >> }
    ELSE LET shorter == BlocksOf(from, n - 1)
         IN  shorter \cup { Append(ls, l) : ls \in shorter, l \in from }

\* lines.join('\n'): the content of the block that holds the lines
RECURSIVE JoinLines(_)
JoinLines(lines) ==
    IF lines = << >> THEN << >>
    ELSE IF Len(lines) = 1 THEN lines[1]
    ELSE lines[1] \o << "\n" >> \o JoinLines(Tail(lines))

BlockCalls ==
    { [op |-> "parseBlock", lines |-> ls] : ls \in BlocksOf(BlockLines, MaxLines) }

ShapeCalls ==
    { [op |-> "looksLikeShellCommands", lines |-> ls] : ls \in BlocksOf(BlockLines, MaxLines) }

\* commands by the dialect their text shows: PowerShell, PowerShell and CMD
\* at once, CMD, Unix, and none
GetItem ==     \* a PowerShell verb, in mixed case: 'Get-Item x'
    << "G", "e", "t", "-", "I", "t", "e", "m", " ", "x" >>
DelBracket ==     \* a CMD word and PowerShell's brackets: 'del [x]'
    << "d", "e", "l", " ", "[", "x", "]" >>
CopyFile ==     \* a CMD word: 'copy a b'
    << "c", "o", "p", "y", " ", "a", " ", "b" >>
ListFiles ==     \* a Unix word: 'ls -la'
    << "l", "s", " ", "-", "l", "a" >>
PowerShellLines == { GetItem, DelBracket }
CmdLines == { DelBracket, CopyFile }
HintLines == PowerShellLines \cup CmdLines \cup { ListFiles, NpmInstall }

\* an untagged block that holds the lines: <fence>\n<lines>\n<fence>\n
UntaggedBlock(lines) ==
    Fence \o << "\n" >> \o JoinLines(lines) \o << "\n" >> \o Fence \o << "\n" >>

HintCalls ==
    { [op |-> "extractCommands", text |-> UntaggedBlock(ls), recentTextOnly |-> TRUE,
       lines |-> ls] : ls \in BlocksOf(HintLines, MaxLines) \ { << >> } }

Calls ==
    ExtractCalls \cup DiffCalls \cup ParseCalls \cup BlockCalls \cup ShapeCalls \cup HintCalls

(* ----------------- the extraction functions, called alone --------------- *)
InitialConfig ==
    [enabled |-> TRUE, silenceMs |-> MaxSilence, chatMatchers |-> DefaultChatMatchers]

ExtractInit ==
    /\ call \in Calls
    /\ returned = NotReturned
    /\ config = InitialConfig
    /\ isEnabled = config.enabled
    /\ documentStates = EmptyMap
    /\ disposed = FALSE
    /\ timers = {}
    /\ docs = [d \in Keys |-> [text |-> InitialText[d]]]
    /\ emitted = << >>
    /\ hist = [d \in Keys |-> NoHistory]
    /\ ExtensionStart(TRUE)

ExtractCommands ==
    /\ call.op = "extractCommands"
    /\ ~returned.done
    /\ returned' = Returned(extractCommands(call.text, call.recentTextOnly))
    /\ UNCHANGED <<call, detection, extension>>

ExtractCommandsFromDiff ==
    /\ call.op = "extractCommandsFromDiff"
    /\ ~returned.done
    /\ returned' = Returned(extractCommandsFromDiff(call.oldText, call.newText))
    /\ UNCHANGED <<call, detection, extension>>

\* a block whose only line is the command behind the marker
ParseCommandsFromBlock ==
    /\ call.op = "parseCommandsFromBlock"
    /\ ~returned.done
    /\ returned' = Returned(parseCommandsFromBlock(call.marker \o call.command))
    /\ UNCHANGED <<call, detection, extension>>

\* a block of several lines
ParseBlock ==
    /\ call.op = "parseBlock"
    /\ ~returned.done
    /\ returned' = Returned(parseCommandsFromBlock(JoinLines(call.lines)))
    /\ UNCHANGED <<call, detection, extension>>

LooksLikeShellCommands ==
    /\ call.op = "looksLikeShellCommands"
    /\ ~returned.done
    /\ returned' = Returned(looksLikeShellCommands(JoinLines(call.lines)))
    /\ UNCHANGED <<call, detection, extension>>

ExtractNext ==
    \/ ExtractCommands
    \/ ExtractCommandsFromDiff
    \/ ParseCommandsFromBlock
    \/ ParseBlock
    \/ LooksLikeShellCommands

ExtractSpec == ExtractInit /\ [][ExtractNext]_vars

(* ------------------------ src/notifier.ts: Notifier -------------------- *)
\* the extension's objects as one value: extension.ts's module variable,
\* the TaskRunner's fields and the host facilities they act on
Extension ==
    [ lastExtractedCommands |-> lastExtractedCommands,
      notifications |-> notifications,
      shown |-> shown,
      useTasks |-> useTasks,
      taskCounter |-> taskCounter,
      runningTasks |-> runningTasks,
      tasks |-> tasks,
      terminal |-> terminal,
      handled |-> handled ]

\* a NotificationAction: its title, and what its closure captured
ShowChat(document) ==
    [title |-> "Show Chat", document |-> <<document>>, extractedCommands |-> << >>]
RunInTerminal(extractedCommands) ==
    [title |-> "Run in Terminal", document |-> << >>,
     extractedCommands |-> <<extractedCommands>>]
Retry(commands) ==
    [title |-> "Retry", document |-> << >>,
     extractedCommands |->
         << [commands |-> commands, languageHint |-> Null, rawBlocks |-> << >>] >>]

\* showNotification up to its await of showInformationMessage: the message is
\* on screen with one button per action (notifyWithSound and
\* autoRevealOnFinish are off, their defaults, so nothing is awaited earlier).
\* A notification is named after what it reports: <<"chatIdle", k>> for the
\* k-th idle event, <<"taskCompletion", n>> for task n.
showNotification(X, id, actions) ==
    [X EXCEPT !.notifications = @ \cup {[id |-> id, actions |-> actions]}]

showChatIdleNotificationAlways(X, document, extractedCommands) ==
    showNotification(X, <<"chatIdle", X.shown>>,
                     {ShowChat(document), RunInTerminal(extractedCommands)})

showChatIdleNotification(X, document, extractedCommands) ==
    LET hasCommands == Len(extractedCommands.commands) > 0
    IN  showNotification(X, <<"chatIdle", X.shown>>,
            {ShowChat(document)} \cup
            (IF hasCommands THEN {RunInTerminal(extractedCommands)} ELSE {}))

showTaskCompletionNotification(X, task, success, exitCode, commands) ==
    showNotification(X, <<"taskCompletion", task>>,
                     IF ~success THEN {Retry(commands)} ELSE {})

(* ---------------------- src/notifier.ts: TaskRunner -------------------- *)
\* an exit code is <<n>>, or << >> for undefined
ExitCodes == { <<0>>, <<1>>, << >> }

\* createTask: the name VibeNotify-<n> of the next task
createTask(X) == X.taskCounter + 1

\* an argument that was not passed
Undefined == << "<undefined>" >>

\* buildShellExecution: the shell the task is run with, Undefined for the
\* host's default shell
buildShellExecution(commands, languageHint, isWindows) ==
    IF languageHint \in {Null, Undefined} THEN [shell |-> Undefined]
    ELSE IF languageHint \in {LangPowerShell, << "p", "w", "s", "h" >>}
    THEN [shell |-> IF isWindows THEN << "p", "o", "w", "e", "r", "s", "h", "e", "l", "l", ".", "e", "x", "e" >> ELSE << "p", "w", "s", "h" >>]
    ELSE IF languageHint = LangCmd
    THEN [shell |-> IF isWindows THEN << "c", "m", "d", ".", "e", "x", "e" >> ELSE Undefined]
    ELSE IF languageHint \in {LangBash, << "z", "s", "h" >>, << "s", "h" >>}
    THEN [shell |-> languageHint]
    ELSE [shell |-> Undefined]

\* TaskRunner.run up to its await of vscode.tasks.executeTask, which either
\* starts the task or rejects; run() then waits to be resumed. The task's
\* shell is given for either platform.
TaskRunnerRun(X, commands, languageHint, launches) ==
    IF Len(commands) = 0 THEN X
    ELSE LET name == createTask(X)
             created == [X EXCEPT !.taskCounter = name]
         IN  IF launches
             THEN [created EXCEPT !.tasks =
                       MapSet(@, name,
                           [commands |-> commands, awaited |-> TRUE,
                            ended |-> FALSE, exitCode |-> << >>,
                            events |-> << >>,
                            shell |-> [isWindows \in BOOLEAN |->
                                buildShellExecution(commands, languageHint,
                                                    isWindows).shell]])]
             ELSE created

\* the rest of TaskRunner.run, after executeTask has resolved
TaskRunnerResume(X, name) ==
    [X EXCEPT !.runningTasks = MapSet(@, name, [commands |-> X.tasks[name].commands]),
              !.tasks = MapSet(@, name, [X.tasks[name] EXCEPT !.awaited = FALSE])]

(* ----------------------- extension.ts: the handlers -------------------- *)
handleTaskCompletion(X, task, success, exitCode, commands) ==
    showTaskCompletionNotification(X, task, success, exitCode, commands)

\* onTaskProcessEnd, with the extension's onTaskCompletion listener
onTaskProcessEnd(X, name, exitCode) ==
    IF name \notin DOMAIN X.runningTasks THEN X
    ELSE LET taskInfo == X.runningTasks[name]
             success == exitCode = <<0>>
             event == [task |-> name, exitCode |-> exitCode, success |-> success,
                       commands |-> taskInfo.commands]
         IN  handleTaskCompletion(
                 [X EXCEPT !.runningTasks = MapDelete(@, name),
                           !.tasks = MapSet(@, name,
                               [X.tasks[name] EXCEPT !.events = Append(@, event)])],
                 name, success, exitCode, taskInfo.commands)

\* TerminalRunner.preprocessCommand: the trimmed command, or its first
\* non-empty line when it has several
preprocessCommand(command) ==
    LET processedCommand == trim(command)
        lines == TrimmedLines(processedCommand)
    IN  IF "\n" \in Range(processedCommand) /\ Len(lines) > 0
        THEN lines[1]
        ELSE processedCommand

\* TerminalRunner.run: every command is sent, in order, to the named terminal;
\* preprocessCommand does nothing with the hint
TerminalRunnerRun(X, commands, languageHint) ==
    IF Len(commands) = 0 THEN X
    ELSE [X EXCEPT !.terminal =
              Append(@, [i \in 1..Len(commands) |-> preprocessCommand(commands[i])])]

\* (variant: only a missing extraction is warned about)
runLastExtractedInTerminalNullOnly(X, launches) ==
    IF X.lastExtractedCommands = << >>
    THEN [extension |-> X, requested |-> << >>, hint |-> << >>, warned |-> TRUE]
    ELSE LET commands == X.lastExtractedCommands[1].commands
         IN  [extension |-> IF X.useTasks
                            THEN TaskRunnerRun(X, commands, Undefined, launches)
                            ELSE TerminalRunnerRun(X, commands, Undefined),
              requested |-> <<commands>>,
              hint |-> <<Undefined>>,
              warned |-> FALSE]

\* the command vibenotify.runLastExtractedInTerminal: the state it leaves,
\* the command list and the language hint it handed to a runner (<< >> when
\* none) and whether it showed the warning. The runner is called with the
\* commands alone.
runLastExtractedInTerminal(X, launches) ==
    IF \/ X.lastExtractedCommands = << >>
       \/ Len(X.lastExtractedCommands[1].commands) = 0
    THEN [extension |-> X, requested |-> << >>, hint |-> << >>, warned |-> TRUE]
    ELSE LET commands == X.lastExtractedCommands[1].commands
         IN  [extension |-> IF X.useTasks
                            THEN TaskRunnerRun(X, commands, Undefined, launches)
                            ELSE TerminalRunnerRun(X, commands, Undefined),
              requested |-> <<commands>>,
              hint |-> <<Undefined>>,
              warned |-> FALSE]

\* Notifier.executeCommands: its argument is not read
executeCommands(X, extractedCommands, launches) ==
    runLastExtractedInTerminal(X, launches)

handleChatIdleKeep(X, event) ==
    LET extractedCommands == extractCommands(event.currentContent, TRUE)
        stored == IF Len(extractedCommands.commands) > 0
                  THEN <<extractedCommands>>
                  ELSE X.lastExtractedCommands
    IN  showChatIdleNotification(
            [X EXCEPT !.lastExtractedCommands = stored,
                      !.shown = @ + 1,
                      !.handled = <<event.currentContent>>],
            event.document, extractedCommands)

handleChatIdle(X, event) ==
    LET extractedCommands == extractCommands(event.currentContent, TRUE)
    IN  showChatIdleNotification(
            [X EXCEPT !.lastExtractedCommands = <<extractedCommands>>,
                      !.shown = @ + 1,
                      !.handled = <<event.currentContent>>],
            event.document, extractedCommands)

(* ------------------ the extension, on idle events as given ------------- *)
\* the contents an idle event of each buffer can carry: a chat reply with
\* two bash commands or one without any command, and one with a PowerShell
\* command
ChatContents == [a |-> { KeywordBash, Prose }, b |-> { PowerShellUnix }]

ExtensionInit ==
    /\ call = NoCall
    /\ returned = NotReturned
    /\ config = InitialConfig
    /\ isEnabled = config.enabled
    /\ documentStates = EmptyMap
    /\ disposed = FALSE
    /\ timers = {}
    /\ docs = [d \in Keys |-> [text |-> InitialText[d]]]
    /\ emitted = << >>
    /\ hist = [d \in Keys |-> NoHistory]
    /\ \E setting \in BOOLEAN : ExtensionStart(setting)

\* the tasks whose process has ended and whose run() has returned: the host
\* and the runner are done with them
Finished(X) == {n \in DOMAIN X.tasks : X.tasks[n].ended /\ ~X.tasks[n].awaited}
SettledIn(X) ==
    IF Finished(X) = {} THEN << >>
    ELSE LET n == CHOOSE n \in Finished(X) : TRUE
         IN  << [name |-> n, commands |-> X.tasks[n].commands,
                 exitCode |-> X.tasks[n].exitCode, events |-> X.tasks[n].events] >>

InstallExtension(X) ==
    /\ lastExtractedCommands' = X.lastExtractedCommands
    /\ notifications' = X.notifications
    /\ shown' = X.shown
    /\ useTasks' = X.useTasks
    /\ taskCounter' = X.taskCounter
    /\ runningTasks' = X.runningTasks
    /\ tasks' = [n \in DOMAIN X.tasks \ Finished(X) |-> X.tasks[n]]
    /\ terminal' = X.terminal
    /\ handled' = X.handled
    /\ settled' = SettledIn(X)

\* the stored extraction, the tasks and what the terminal was sent
Stored ==
    [lastExtractedCommands |-> lastExtractedCommands, taskCounter |-> taskCounter,
     runningTasks |-> runningTasks, tasks |-> tasks, terminal |-> terminal]

\* what a selected action did: the notification and title, the commands its
\* closure captured, the outcome of the command it invoked and, when that
\* was the warning, what the command met
Ran(id, action, outcome) ==
    << [notification |-> id, title |-> action.title,
        captured |-> action.extractedCommands,
        requested |-> outcome.requested, hint |-> outcome.hint,
        warned |-> outcome.warned,
        met |-> IF outcome.warned THEN << Stored >> ELSE << >>] >>

\* the command invoked by itself, not through a notification
FromPalette ==
    [title |-> "Run Last Extracted", document |-> << >>, extractedCommands |-> << >>]

\* a runner may still be started: the runs are capped, and so are the tasks
\* that are under way at one time
MayRun ==
    /\ Cardinality(DOMAIN tasks) < MaxUnfinished
    /\ taskCounter < MaxRuns
    /\ Len(terminal) < MaxRuns

\* the detector's onIdle event for document d reaches the extension's listener
ChatIdle(d, content) ==
    /\ shown < MaxShown
    /\ InstallExtension(handleChatIdle(Extension,
                                       [document |-> d, currentContent |-> content]))
    /\ ran' = << >>
    /\ UNCHANGED <<detection, extraction, terminalRunner, skipped>>

\* the user presses the button of action a on notification n:
\* showInformationMessage resolves and showNotification runs the action
Select(n, a, launches) ==
    /\ a.title = "Show Chat" \/ MayRun
    /\ LET X == [Extension EXCEPT !.notifications = @ \ {n}]
           outcome == IF a.title = "Show Chat"
                      THEN [extension |-> X, requested |-> << >>, hint |-> << >>,
                            warned |-> FALSE]
                      ELSE executeCommands(X, a.extractedCommands[1], launches)
       IN  /\ InstallExtension(outcome.extension)
           /\ ran' = Ran(n.id, a, outcome)
    /\ UNCHANGED <<detection, extraction, terminalRunner, skipped>>

\* the user closes notification n without pressing a button
Dismiss(n) ==
    /\ notifications' = notifications \ {n}
    /\ ran' = << >>
    /\ settled' = << >>
    /\ UNCHANGED <<detection, extraction, lastExtractedCommands, shown, useTasks,
                   taskCounter, runningTasks, tasks, terminal, handled, terminalRunner,
                   skipped>>

\* the user invokes the command from the palette
RunLastExtracted(launches) ==
    /\ MayRun
    /\ LET outcome == runLastExtractedInTerminal(Extension, launches)
       IN  /\ InstallExtension(outcome.extension)
           /\ ran' = Ran(<<"command">>, FromPalette, outcome)
    /\ UNCHANGED <<detection, extraction, terminalRunner, skipped>>

\* the promise of executeTask having resolved, run() continues
RunResumes(name) ==
    /\ tasks[name].awaited
    /\ InstallExtension(TaskRunnerResume(Extension, name))
    /\ ran' = << >>
    /\ UNCHANGED <<detection, extraction, terminalRunner, skipped>>

\* the process of task `name` ends and the host delivers onDidEndTaskProcess
TaskProcessEnd(name, exitCode) ==
    /\ ~tasks[name].ended
    /\ LET X == [Extension EXCEPT !.tasks =
                     MapSet(@, name, [tasks[name] EXCEPT !.ended = TRUE,
                                                        !.exitCode = exitCode])]
       IN  InstallExtension(onTaskProcessEnd(X, name, exitCode))
    /\ ran' = << >>
    /\ UNCHANGED <<detection, extraction, terminalRunner, skipped>>

ExtensionNext ==
    \/ \E d \in Keys : \E content \in ChatContents[d] : ChatIdle(d, content)
    \/ \E n \in notifications : \E a \in n.actions, launches \in BOOLEAN :
           Select(n, a, launches)
    \/ \E n \in notifications : Dismiss(n)
    \/ \E launches \in BOOLEAN : RunLastExtracted(launches)
    \/ \E name \in DOMAIN tasks : RunResumes(name)
    \/ \E name \in DOMAIN tasks, exitCode \in ExitCodes : TaskProcessEnd(name, exitCode)

ExtensionSpec == ExtensionInit /\ [][ExtensionNext]_vars

(* --------------------- TerminalRunner and its terminals ---------------- *)
\* config.terminalName, at its default, and the names the host's terminals have
terminalName == "VibeNotify"
TerminalNames == { terminalName, "zsh" }

\* the command lists TerminalRunner.run is called with
CommandLists == { << >>, << PaddedCommand >>, << NpmInstall, GitPull >> }

\* the TerminalRunner and the host's terminals as one value
TerminalRunner == [terminals |-> terminals, windowTerminals |-> windowTerminals]

\* vscode.window.terminals: the terminals that have not been closed; a
\* terminal has an exitStatus from the moment it is closed
WindowTerminals(R) ==
    {t \in DOMAIN R.windowTerminals : R.windowTerminals[t].exitStatus = Undefined}

\* the exitStatus of a terminal that has been closed
Exited == << "exited" >>

\* vscode.window.createTerminal
createTerminal(R, name) ==
    [R EXCEPT !.windowTerminals =
         Append(@, [name |-> name, exitStatus |-> Undefined, sent |-> << >>])]

\* (variant: a terminal is created on every call)
getOrCreateTerminalNew(R) ==
    LET newTerminal == Len(R.windowTerminals) + 1
    IN  [runner |-> [createTerminal(R, terminalName) EXCEPT
                         !.terminals = MapSet(@, terminalName, newTerminal)],
         terminal |-> newTerminal, created |-> TRUE]

\* getOrCreateTerminal: the runner and host it leaves, the terminal it
\* returns and whether it created it
getOrCreateTerminal(R) ==
    LET cachedTerminal == IF terminalName \in DOMAIN R.terminals
                          THEN << R.terminals[terminalName] >> ELSE << >>
        existing == {t \in WindowTerminals(R) :
                        /\ R.windowTerminals[t].name = terminalName
                        /\ R.windowTerminals[t].exitStatus = Undefined}
        newTerminal == Len(R.windowTerminals) + 1
    IN  IF /\ cachedTerminal # << >>
           /\ R.windowTerminals[cachedTerminal[1]].exitStatus = Undefined
        THEN [runner |-> R, terminal |-> cachedTerminal[1], created |-> FALSE]
        ELSE IF existing # {}
        THEN [runner |-> [R EXCEPT !.terminals = MapSet(@, terminalName, Min(existing))],
              terminal |-> Min(existing), created |-> FALSE]
        ELSE [runner |-> [createTerminal(R, terminalName) EXCEPT
                              !.terminals = MapSet(@, terminalName, newTerminal)],
              terminal |-> newTerminal, created |-> TRUE]

\* terminal.sendText of the index-th command of a call of run: a terminal
\* that is closed receives nothing
sendText(R, t, run, index, command) ==
    IF R.windowTerminals[t].exitStatus # Undefined THEN R
    ELSE [R EXCEPT !.windowTerminals[t].sent =
              Append(@, [run |-> run, index |-> index,
                         text |-> preprocessCommand(command)])]

\* the listener of onDidCloseTerminal
onDidCloseTerminal(R, t) ==
    [R EXCEPT !.terminals = [name \in {n \in DOMAIN @ : @[n] # t} |-> @[name]]]

\* the terminals named terminalName that are live
LiveNamed ==
    {t \in DOMAIN windowTerminals :
        /\ windowTerminals[t].name = terminalName
        /\ windowTerminals[t].exitStatus = Undefined}

\* what a call of getOrCreateTerminal did, and the live terminals of that
\* name it found
Obtained(run, got, commands, atStart) ==
    << [run |-> run, terminal |-> got.terminal, created |-> got.created,
        live |-> LiveNamed, commands |-> commands, atStart |-> atStart] >>

InstallTerminalRunner(R) ==
    /\ terminals' = R.terminals
    /\ windowTerminals' = R.windowTerminals

\* TerminalRunner.run up to its first await: the terminal is obtained and the
\* first command sent; a list of several commands waits in a delay
TerminalRun(commands) ==
    /\ calls < MaxCalls
    /\ LET run == calls + 1
           got == getOrCreateTerminal(TerminalRunner)
       IN  /\ Len(got.runner.windowTerminals) <= MaxTerminals
           /\ calls' = run
           /\ obtained' = Obtained(run, got, commands, TRUE)
           /\ IF Len(commands) = 0
              THEN /\ InstallTerminalRunner(got.runner)
                   /\ sending' = sending
              ELSE /\ InstallTerminalRunner(
                          sendText(got.runner, got.terminal, run, 1, commands[1]))
                   /\ sending' =
                          IF Len(commands) > 1
                          THEN MapSet(sending, run, [terminal |-> got.terminal,
                                                     commands |-> commands, next |-> 2])
                          ELSE sending
    /\ UNCHANGED <<detection, extraction, handlers, skipped>>

\* the delay of a call of run is over: the next command is sent to the
\* terminal the call obtained. Sending to a closed terminal either does
\* nothing or throws, and the catch obtains a terminal for the result.
DelayElapsed(run, throws) ==
    LET r == sending[run]
        closed == windowTerminals[r.terminal].exitStatus # Undefined
        got == getOrCreateTerminal(TerminalRunner)
    IN  /\ throws => closed
        /\ IF throws
           THEN /\ Len(got.runner.windowTerminals) <= MaxTerminals
                /\ InstallTerminalRunner(got.runner)
                /\ sending' = MapDelete(sending, run)
                /\ obtained' = Obtained(run, got, r.commands, FALSE)
           ELSE /\ InstallTerminalRunner(
                       sendText(TerminalRunner, r.terminal, run, r.next,
                                r.commands[r.next]))
                /\ sending' = IF r.next < Len(r.commands)
                              THEN MapSet(sending, run, [r EXCEPT !.next = @ + 1])
                              ELSE MapDelete(sending, run)
                /\ obtained' = << >>
        /\ UNCHANGED <<detection, extraction, handlers, calls, skipped>>

\* the user closes terminal t, or its shell exits
CloseTerminal(t) ==
    /\ windowTerminals[t].exitStatus = Undefined
    /\ InstallTerminalRunner(onDidCloseTerminal(
           [TerminalRunner EXCEPT !.windowTerminals[t].exitStatus = Exited], t))
    /\ obtained' = << >>
    /\ UNCHANGED <<detection, extraction, handlers, sending, calls, skipped>>

\* the user opens a terminal of some name
OpenTerminal(name) ==
    /\ Len(windowTerminals) < MaxTerminals
    /\ InstallTerminalRunner(createTerminal(TerminalRunner, name))
    /\ obtained' = << >>
    /\ UNCHANGED <<detection, extraction, handlers, sending, calls, skipped>>

TerminalInit ==
    /\ call = NoCall
    /\ returned = NotReturned
    /\ config = InitialConfig
    /\ isEnabled = config.enabled
    /\ documentStates = EmptyMap
    /\ disposed = FALSE
    /\ timers = {}
    /\ docs = [d \in Keys |-> [text |-> InitialText[d]]]
    /\ emitted = << >>
    /\ hist = [d \in Keys |-> NoHistory]
    /\ ExtensionStart(FALSE)

TerminalNext ==
    \/ \E commands \in CommandLists : TerminalRun(commands)
    \/ \E run \in DOMAIN sending, throws \in BOOLEAN : DelayElapsed(run, throws)
    \/ \E t \in DOMAIN windowTerminals : CloseTerminal(t)
    \/ \E name \in TerminalNames : OpenTerminal(name)

TerminalSpec == TerminalInit /\ [][TerminalNext]_vars

(* ----------------------------- properties ------------------------------ *)
NonNegative(n) == IF n > 0 THEN n ELSE 0

EventOf(emission) == emission.event

\* C1 (debounce correctness): a burst of N >= 1 processed edits of a document
\* leaves exactly one timer, due a full silence duration after the last edit
\* of the burst; the idle event that timer fires carries changesSinceLastIdle
\* = N; and the burst yields no second timer-driven event: once the event has
\* fired no timer is left until the next processed edit.
DebounceCorrectness ==
    /\ \A d \in Keys :
          /\ OpenEdits(hist[d]) >= 1 =>
                /\ Cardinality(TimersOf(d)) = 1
                /\ \A t \in TimersOf(d) :
                      t.remaining = NonNegative(hist[d].armedSilence - hist[d].age)
          /\ OpenEdits(hist[d]) = 0 => TimersOf(d) = {}
    /\ \A i \in DOMAIN emitted :
          emitted[i].byTimer =>
              /\ emitted[i].edits >= 1
              /\ EventOf(emitted[i]).changesSinceLastIdle = emitted[i].edits

\* a timer-driven idle event that reports a burst of MaxChanges edits
DebounceWitness ==
    \E i \in DOMAIN emitted :
        /\ emitted[i].byTimer
        /\ EventOf(emitted[i]).changesSinceLastIdle = MaxChanges
        /\ emitted[i].edits = MaxChanges

\* C2 (timer reset): no timer-driven idle event of a document fires before
\* the silence duration, as read when its last processed edit armed the
\* timer, has elapsed since that edit; and no pending timer of the document
\* can come due before then.
TimerReset ==
    /\ \A i \in DOMAIN emitted :
          emitted[i].byTimer => emitted[i].age >= emitted[i].armedSilence
    /\ \A t \in timers :
          t.remaining + hist[t.key].age >= hist[t.key].armedSilence

\* a second edit arrived while the first one's timer was running, and the
\* timer now pending still has time to run although the first would be due
TimerResetWitness ==
    \E d \in Keys :
        /\ OpenEdits(hist[d]) = 2
        /\ hist[d].age = 1
        /\ \E t \in TimersOf(d) : t.remaining = 1

\* C3: every document has at most one live timer, and it is the one its
\* state holds the handle of.
AtMostOneTimer ==
    /\ \A d \in Keys : Cardinality(TimersOf(d)) <= 1
    /\ \A t \in timers : t.key \in Tracked /\ documentStates[t.key].timeout = t.id

\* a timer re-armed by a second edit: one timer, although two were scheduled
AtMostOneTimerWitness ==
    \E d \in Keys :
        /\ d \in Tracked
        /\ documentStates[d].changeCount = 2
        /\ Cardinality(TimersOf(d)) = 1

\* what the detector holds for document d: its state (none when untracked)
\* and its live timers
Held(d) ==
    [state  |-> IF d \in Tracked THEN << documentStates[d] >> ELSE << >>,
     timers |-> TimersOf(d)]

\* a step that is an edit, a timer firing, a manual trigger or a close of d
StepOn(d) ==
    \/ \E nChanges \in 0..1 : \E text \in Texts[d] : TextDocumentChange(d, text, nChanges)
    \/ \E t \in TimersOf(d) : TimerFire(t)
    \/ TriggerIdle(d)
    \/ TextDocumentClose(d)

\* C4 (independence): a step on one document leaves what the detector holds
\* for every other document unchanged (state, change count, cached content,
\* timer with its content and due time) and fires no event of the other.
Independence ==
    [][\A d \in Keys : \A other \in Keys \ {d} :
          \/ /\ Held(other)' = Held(other)
             /\ \A i \in DOMAIN emitted' : EventOf(emitted'[i]).document # other
          \/ ~StepOn(d)]_vars

\* one document's event has just fired while the other's timer is pending
IndependenceWitness ==
    /\ \E i \in DOMAIN emitted : EventOf(emitted[i]).document = "a"
    /\ "b" \in Tracked
    /\ documentStates["b"].changeCount = 2
    /\ \E t \in TimersOf("b") : t.remaining = 1 /\ t.content = "x"

\* C5 (close cleanup): from the close of a tracked document until its next
\* processed edit the document has no state and no timer, and no idle event
\* of it fires.
CloseCleanup ==
    \A d \in Keys :
        hist[d].tracking = "closed" =>
            /\ d \notin Tracked
            /\ TimersOf(d) = {}
            /\ \A i \in DOMAIN emitted : EventOf(emitted[i]).document # d

\* a document closed while its timer was pending, the time it would have
\* fired at now past; the other document's timer is still pending
CloseCleanupWitness ==
    /\ hist["b"].tracking = "closed"
    /\ hist["b"].edits >= 1
    /\ TimersOf("a") # {}

\* C6 (disable): the step that takes the detector from enabled to disabled
\* leaves no state and no timer; a document tracked before the disable has
\* no state, no timer and no idle event until its next processed edit; and
\* every idle event counts the edits processed since the tracking (re)began.
DisableCleanSlate ==
    /\ [](\A d \in Keys :
            hist[d].tracking = "disabled" =>
                /\ d \notin Tracked
                /\ TimersOf(d) = {}
                /\ \A i \in DOMAIN emitted : EventOf(emitted[i]).document # d)
    /\ [](\A i \in DOMAIN emitted :
            EventOf(emitted[i]).changesSinceLastIdle = emitted[i].edits)
    /\ [][isEnabled /\ ~isEnabled' => documentStates' = EmptyMap /\ timers' = {}]_vars

\* disabled with an edit pending, enabled again, and not yet edited again
DisableWitness ==
    \E d \in Keys :
        /\ hist[d].tracking = "disabled"
        /\ hist[d].edits >= 1
        /\ isEnabled

\* C7: an edit of a document that does not match leaves the tracked set,
\* every state, every timer and the enabled flag as they were.
NonMatchingIgnored ==
    [][\A d \in Keys, nChanges \in 0..1 : \A text \in Texts[d] :
          \/ UNCHANGED <<documentStates, timers, isEnabled>>
          \/ ~(~matchesChat(config.chatMatchers, Documents[d])
                  /\ TextDocumentChange(d, text, nChanges))]_vars

\* the non-matching document was edited and is not tracked, while the
\* matching one is being debounced
NonMatchingWitness ==
    /\ isEnabled
    /\ ~matchesChat(config.chatMatchers, Documents["b"])
    /\ hist["b"].tracking = "never"
    /\ docs["b"].text = "x"
    /\ "b" \notin Tracked
    /\ TimersOf("a") # {}

\* C8: right after an idle event of a document its change count is 0 and
\* its cached content is the event's currentContent; and the event's
\* previousContent is the currentContent of the document's previous event,
\* when no close, disable or dispose came between the two.
AfterIdle ==
    \A i \in DOMAIN emitted :
        LET event == EventOf(emitted[i]) IN
        /\ event.document \in Tracked
        /\ documentStates[event.document].changeCount = 0
        /\ documentStates[event.document].lastContent = event.currentContent
        /\ emitted[i].prev # NoText => event.previousContent = emitted[i].prev

\* a second event of a document, whose content changed since the first
AfterIdleWitness ==
    \E i \in DOMAIN emitted :
        /\ emitted[i].prev # NoText
        /\ EventOf(emitted[i]).previousContent = emitted[i].prev
        /\ EventOf(emitted[i]).currentContent # emitted[i].prev

\* C9: the currentContent of every idle event is the live text of its
\* document at the instant the event fires.
CurrentContentIsLive ==
    \A i \in DOMAIN emitted :
        EventOf(emitted[i]).currentContent = docs[EventOf(emitted[i]).document].text

\* C10: a tracked document stops being tracked only in a step that closes
\* it, disables the detector or disposes of it; firing its idle event keeps
\* it tracked; and a processed edit of a tracked document counts on the
\* state that is there, keeping its cached content.
StatePersists ==
    [][\A d \in Keys :
          /\ (d \in Tracked /\ d \notin Tracked') =>
                 \/ isEnabled /\ ~isEnabled'
                 \/ ~disposed /\ disposed'
                 \/ TextDocumentClose(d)
          /\ \A i \in DOMAIN emitted' :
                 EventOf(emitted'[i]).document = d => d \in Tracked /\ d \in Tracked'
          /\ \A nChanges \in 0..1 : \A text \in Texts[d] :
                 (d \in Tracked /\ Processed(d, nChanges)
                      /\ TextDocumentChange(d, text, nChanges))
                 => /\ d \in Tracked'
                    /\ documentStates'[d].lastContent = documentStates[d].lastContent
                    /\ documentStates'[d].changeCount = documentStates[d].changeCount + 1]_vars

\* a document edited again after its idle event: a new round on the state
\* that carries the content of that event
StatePersistsWitness ==
    \E d \in Keys :
        /\ d \in Tracked
        /\ hist[d].prevCurrent # NoText
        /\ documentStates[d].lastContent = hist[d].prevCurrent
        /\ documentStates[d].changeCount = 1
        /\ TimersOf(d) # {}

\* C11: the silence duration is read when a timer is armed.  A configuration
\* change that leaves the detector enabled leaves every tracked state and
\* every pending timer (its deadline included) as they were, and a timer
\* armed by a later edit waits for the value configured at that edit.
SilenceReadAtArm ==
    [][/\ \/ config' = config
          \/ ~isEnabled
          \/ ~isEnabled'
          \/ UNCHANGED <<documentStates, timers>>
       /\ \A d \in Keys :
              \/ OpenEdits(hist'[d]) <= OpenEdits(hist[d])
              \/ /\ \E t \in timers' : t.key = getDocumentKey(d)
                 /\ \A t \in timers' :
                        t.key = getDocumentKey(d) => t.remaining = config.silenceMs]_vars

\* a timer armed for the longest delay is pending, untouched, after the
\* setting was shortened
SilenceReadAtArmWitness ==
    /\ isEnabled
    /\ config.silenceMs = 1
    /\ hist["a"].armedSilence = MaxSilence
    /\ \E t \in TimersOf("a") : t.remaining = MaxSilence
    /\ documentStates["a"].changeCount = 1

\* some entry has three valid patterns and each accepts its field
SomeValidEntryMatches(matchers, document) ==
    \E i \in DOMAIN matchers :
        /\ matchers[i].languageIdRegex.valid
        /\ matchers[i].schemeRegex.valid
        /\ matchers[i].titleRegex.valid
        /\ document.languageId \in matchers[i].languageIdRegex.accepts
        /\ document.scheme \in matchers[i].schemeRegex.accepts
        /\ document.fileName \in matchers[i].titleRegex.accepts

\* C12: an entry with an invalid pattern never fails the match check; it
\* counts as no match and the other entries are still tried: a document
\* matches exactly when some entry with valid patterns accepts it, and an
\* edit of such a document is tracked and arms its idle timer, whatever
\* invalid entries stand before that entry.
InvalidPatternSkipped ==
    /\ [](\A d \in Keys :
              matchesChat(config.chatMatchers, Documents[d])
                  = SomeValidEntryMatches(config.chatMatchers, Documents[d]))
    /\ [][\A d \in Keys : \A text \in Texts[d] :
              \/ /\ getDocumentKey(d) \in DOMAIN documentStates'
                 /\ \E t \in timers' : t.key = getDocumentKey(d)
              \/ ~(/\ isEnabled
                   /\ SomeValidEntryMatches(config.chatMatchers, Documents[d])
                   /\ TextDocumentChange(d, text, 1))]_vars

\* the markdown document, accepted only by the entry behind the invalid
\* one, has produced an idle event by its timer
InvalidPatternWitness ==
    /\ config.chatMatchers = UserChatMatchers
    /\ MatcherOutcome(UserChatMatchers[2], Documents["b"]) = "threw"
    /\ ~SomeValidEntryMatches(SubSeq(UserChatMatchers, 1, 2), Documents["b"])
    /\ \E i \in DOMAIN emitted :
           /\ emitted[i].byTimer
           /\ EventOf(emitted[i]).document = "b"

\* a processed edit of d has armed a timer in this step
Rearmed(d) ==
    /\ d \in DOMAIN documentStates'
    /\ documentStates'[d].timeout # NoTimer
    /\ d \in Tracked => documentStates[d].timeout # documentStates'[d].timeout

\* C26: the timer a processed edit arms holds the document's content as that
\* edit observed it; no later step changes what a pending timer holds; and a
\* timer-driven idle event carries as currentContent what the timer that ran
\* held, the document's live text not being read.
CapturedAtArm ==
    [][ /\ \A d \in Keys :
               Rearmed(d) =>
                   \E t \in timers' : /\ t.id = documentStates'[d].timeout
                                       /\ t.key = d
                                       /\ t.content = docs'[d].text
        /\ \A t \in timers : \A u \in timers' : u.id = t.id => u.content = t.content
        /\ \A i \in DOMAIN emitted' :
               emitted'[i].byTimer =>
                   \E t \in timers :
                       /\ t.remaining = 0
                       /\ t.key = EventOf(emitted'[i]).document
                       /\ \A u \in timers' : u.id # t.id
                       /\ EventOf(emitted'[i]).currentContent = t.content ]_vars

\* a timer-driven event whose currentContent is not the live text any more
CapturedAtArmWitness ==
    \E i \in DOMAIN emitted :
        /\ emitted[i].byTimer
        /\ EventOf(emitted[i]).currentContent # docs[EventOf(emitted[i]).document].text

(* ------------------- properties of the extraction ---------------------- *)
\* the call of extractCommands has returned
Extracted == call.op = "extractCommands" /\ returned.done

\* the stage (1 = A, 2 = B, 3 = C) a block of the text qualifies for
Qualifies(stage, text, b) ==
    CASE stage = 1 -> b.language \in shellLanguages
      [] stage = 2 -> /\ b.language = << >> \/ b.language \in GenericLanguages
                      /\ looksLikeShellCommands(b.content)
      [] stage = 3 -> /\ HasExecutionKeyword(
                             SubSeq(text, Max(1, b.startIndex - LookbackChars + 1), b.startIndex))
                      /\ looksLikeShellCommands(b.content)

\* the stages for which some block of the text qualifies
StagesOf(text) ==
    {stage \in 1..3 : \E b \in Range(ScanBlocks(text, 1)) : Qualifies(stage, text, b)}

LastBlockBias ==
    (Extracted /\ call.recentTextOnly /\ returned.value.rawBlocks # << >>) =>
        LET raw == returned.value.rawBlocks
            last == CHOOSE b \in Range(raw) :
                        \A other \in Range(raw) : other.startIndex <= b.startIndex
        IN  returned.value.commands = parseCommandsFromBlock(last.content)

\* of two shell-tagged blocks with different commands, only the command of
\* the second is returned
LastBlockBiasWitness ==
    /\ Extracted
    /\ call.recentTextOnly
    /\ call.text = KeywordBash \o PowerShellUnix
    /\ Len(returned.value.rawBlocks) = 2
    /\ returned.value.commands = << << "l", "s", " ", "-", "l", "a" >> >>

\* the block the commands are first taken from: the last candidate under
\* recentTextOnly, the first one otherwise
SelectedBlock ==
    LET raw == returned.value.rawBlocks
    IN  IF call.recentTextOnly THEN raw[Len(raw)] ELSE raw[1]

\* C15 (hint precedence): when the tag of the selected block is one of the
\* recognized shell dialects, languageHint is that tag, whatever dialect the
\* text of the commands would be inferred to be.
HintPrecedence ==
    (Extracted /\ returned.value.rawBlocks # << >>
               /\ SelectedBlock.language \in shellLanguages) =>
        returned.value.languageHint = SelectedBlock.language

\* a block tagged powershell whose command reads like Unix: the hint is
\* powershell, although inference on the command says bash
HintPrecedenceWitness ==
    /\ Extracted
    /\ call.recentTextOnly
    /\ call.text = PowerShellUnix
    /\ returned.value.commands = << << "l", "s", " ", "-", "l", "a" >> >>
    /\ inferShellLanguage(returned.value.commands) = LangBash
    /\ returned.value.languageHint = LangPowerShell

\* C16, as stated: a result without commands has no language hint.
NoCommandsNoHint ==
    (Extracted /\ returned.value.commands = << >>) =>
        returned.value.languageHint = Null

\* C16, amended: a result without commands has no language hint, unless the
\* selected block carries a recognized shell tag; the hint is then that tag.
NoCommandsHintFromTag ==
    (Extracted /\ returned.value.commands = << >>) =>
        returned.value.languageHint =
            IF /\ returned.value.rawBlocks # << >>
               /\ SelectedBlock.language \in shellLanguages
            THEN SelectedBlock.language
            ELSE Null

\* a bash block holding only a comment was selected: no command, hint bash
NoCommandsWitness ==
    /\ Extracted
    /\ call.text = CommentOnly
    /\ Len(returned.value.rawBlocks) = 1
    /\ returned.value.commands = << >>
    /\ returned.value.languageHint = LangBash

\* the text holds a fenced block: three backquotes, letters or none, a line
\* break, and three backquotes somewhere after it
HasFencedBlock(text) ==
    \E i \in DOMAIN text :
        /\ StartsAt(text, i, Fence)
        /\ \E k \in (i + 3)..Len(text) :
               /\ text[k] = "\n"
               /\ \A p \in (i + 3)..(k - 1) : IsLetter(text[p])
               /\ \E j \in (k + 1)..Len(text) : StartsAt(text, j, Fence)

\* C17: the extraction of the empty text, and of any text without a fenced
\* block, returns no commands, no hint and no raw blocks.
NoFenceEmptyResult ==
    (Extracted /\ ~HasFencedBlock(call.text)) =>
        /\ returned.value.commands = << >>
        /\ returned.value.languageHint = Null
        /\ returned.value.rawBlocks = << >>

\* extraction has returned for the empty text
EmptyTextWitness ==
    /\ Extracted
    /\ call.text = << >>
    /\ returned.value = EmptyResult

\* the call of parseCommandsFromBlock has returned
Parsed == call.op = "parseCommandsFromBlock" /\ returned.done

\* C18 (prompt stripping): a line that is a plain command behind a prompt
\* marker ('$ ', 'PS> ', 'C:\...> ', '> '), or behind none, is cleaned to
\* that command, unchanged.
PromptStripped ==
    Parsed => returned.value = << call.command >>

\* the call of extractCommandsFromDiff has returned
Diffed == call.op = "extractCommandsFromDiff" /\ returned.done

\* the characters of text from offset n (counted from 0) to the end
SuffixFrom(text, n) == [i \in 1..(Len(text) - n) |-> text[i + n]]

\* C19 (diff-based extraction): when the new text is strictly longer than
\* the old one the result is the extraction, under the last-block policy, of
\* the suffix of the new text that starts at offset length(old); otherwise
\* (equal length or shorter) it is the extraction of the whole new text.
DiffExtraction ==
    Diffed =>
        returned.value =
            IF Len(call.newText) > Len(call.oldText)
            THEN extractCommands(SuffixFrom(call.newText, Len(call.oldText)), TRUE)
            ELSE extractCommands(call.newText, TRUE)

\* the new text appends an untagged block to a fence left open: the suffix
\* yields the untagged block, where the whole text yields a bash block
DiffExtractionWitness ==
    /\ Diffed
    /\ call.oldText = Unclosed
    /\ call.newText = Unclosed \o Untagged
    /\ Len(returned.value.rawBlocks) = 1
    /\ returned.value.rawBlocks[1].language = << >>
    /\ extractCommands(call.newText, TRUE).rawBlocks[1].language = LangBash

\* the tag `fish`, which the README counts among the shell languages
LangFish == << "f", "i", "s", "h" >>

\* C20: a non-empty block tagged fish is a shell-tagged candidate like one
\* tagged bash, sh, powershell, cmd or zsh: it is among the raw blocks,
\* whatever its content looks like and whatever text stands before it.
FishIsShellLanguage ==
    Extracted =>
        \A b \in Range(ScanBlocks(call.text, 1)) :
            b.language = LangFish => b \in Range(returned.value.rawBlocks)

BlockParsed == call.op = "parseBlock" /\ returned.done

\* the line begins with a comment marker
BeginsWithComment(line) ==
    \/ Len(line) >= 1 /\ line[1] = "#"
    \/ Len(line) >= 2 /\ line[1] = "/" /\ line[2] = "/"

\* `command` is what ends the line
EndsLine(command, line) ==
    /\ Len(command) <= Len(line)
    /\ command = SubSeq(line, Len(line) - Len(command) + 1, Len(line))

\* the commands come from lines of the block, one line each, in their order
InLineOrder(commands, lines) ==
    \E from \in [DOMAIN commands -> DOMAIN lines] :
        /\ \A i \in DOMAIN commands, j \in DOMAIN commands : i < j => from[i] < from[j]
        /\ \A i \in DOMAIN commands : EndsLine(commands[i], trim(lines[from[i]]))

\* C27: no command returned for a block begins with a comment marker ('#' or
\* '//'), and the commands keep the order of their lines in the block.
CommentsFiltered ==
    BlockParsed =>
        /\ \A i \in DOMAIN returned.value : ~BeginsWithComment(returned.value[i])
        /\ InLineOrder(returned.value, call.lines)

OutputMarkers == { "|", "+", "-", "*", ">", "<" }

\* the line begins with one of the four prompt markers
HasPrompt(line) ==
    DollarPrompt(line) \/ PowerShellPrompt(line) \/ CmdPrompt(line) \/ GenericPrompt(line)

\* the command a line of a block is to give (none or one): the trimmed line
\* without its prompt, unless the trimmed line is a comment or what is left
\* is empty or begins with an output marker
CommandOf(rawLine) ==
    LET line == trim(rawLine)
        cleaned == IF HasPrompt(line) THEN StripPrompts(line) ELSE line
    IN  IF BeginsWithComment(line) \/ cleaned = << >> \/ cleaned[1] \in OutputMarkers
        THEN << >>
        ELSE << cleaned >>

RECURSIVE CommandsOf(_)
CommandsOf(lines) ==
    IF lines = << >> THEN << >> ELSE CommandOf(Head(lines)) \o CommandsOf(Tail(lines))

\* C28: no command returned for a block is empty or begins with an output
\* marker ('|', '+', '-', '*', '>', '<'); every line that is no comment and
\* that, trimmed and without its prompt, is neither empty nor begins with such
\* a marker gives one command, the trimmed line without its prompt, and the
\* other lines give none.
OutputFiltered ==
    BlockParsed =>
        /\ \A i \in DOMAIN returned.value :
               /\ returned.value[i] # << >>
               /\ returned.value[i][1] \notin OutputMarkers
        /\ returned.value = CommandsOf(call.lines)

\* a block of three lines of which the line of output behind a prompt and
\* the blank line are dropped and the padded command is kept, trimmed
OutputFilteredWitness ==
    /\ BlockParsed
    /\ call.lines = << PromptOutput, PaddedCommand, BlankLine >>
    /\ returned.value = << ListFiles >>

Shaped == call.op = "looksLikeShellCommands" /\ returned.done

\* how many lines of the block are in the set
Count(lines, set) == Cardinality({i \in DOMAIN lines : lines[i] \in set})

\* C29: a block with n non-empty lines of which m have the shape of a command
\* qualifies as shell content exactly when n > 0 and 2 * m > n.
ShapeThreshold ==
    Shaped =>
        LET m == Count(call.lines, ShellLines)
            n == Count(call.lines, ShellLines \cup OtherLines)
        IN  returned.value <=> (n > 0 /\ 2 * m > n)

\* exactly half of the non-empty lines match and the block does not qualify
ShapeThresholdWitness ==
    /\ Shaped
    /\ call.lines = << NpmInstall, BlankLine, Word >>
    /\ ~returned.value

HintInferred == Extracted /\ "lines" \in DOMAIN call

\* C30: a result with commands has a hint; when the selected block has no
\* recognized shell tag the hint is powershell, cmd or bash, and for an
\* untagged block of commands it is powershell if a command shows a
\* PowerShell signature, else cmd if one shows a CMD signature, else bash.
HintInference ==
    /\ (Extracted \/ Diffed) /\ returned.value.commands # << >> =>
           returned.value.languageHint # Null
    /\ Extracted /\ returned.value.commands # << >>
                 /\ SelectedBlock.language \notin shellLanguages =>
           returned.value.languageHint \in { LangPowerShell, LangCmd, LangBash }
    /\ HintInferred =>
           /\ returned.value.commands = call.lines
           /\ returned.value.languageHint =
                  IF Count(call.lines, PowerShellLines) > 0 THEN LangPowerShell
                  ELSE IF Count(call.lines, CmdLines) > 0 THEN LangCmd
                  ELSE LangBash

\* a block with a CMD command and a command that shows both dialects gives
\* powershell
HintInferenceWitness ==
    /\ HintInferred
    /\ call.lines = << CopyFile, DelBracket >>
    /\ returned.value.languageHint = LangPowerShell

\* the tags and contents of the blocks, without their positions
Contents(blocks) ==
    [i \in DOMAIN blocks |-> [language |-> blocks[i].language, content |-> blocks[i].content]]

\* the pieces of text a block of white space may stand between: any piece
\* before which a fence cannot be left open, or none
Closed == (Segments \ { Unclosed }) \cup { << >> }

ChatExtraction ==
    [content \in UNION {ChatContents[d] : d \in Keys} |-> extractCommands(content, TRUE)]

\* the action a selection ran, when the last step was a selection of `title`
Selected(title) == ran # << >> /\ ran[1].title = title

\* C21: selecting 'Run in Terminal' on a chat-idle notification hands to the
\* runner exactly the commands extracted for that notification's idle event,
\* whatever has been handled since the notification was shown.
RunInTerminalRunsItsCommands ==
    Selected("Run in Terminal") =>
        ran[1].requested = << ran[1].captured[1].commands >>

\* C22: once an idle event has been handled, the stored extraction is the
\* extraction of the content of the most recently handled idle event, with
\* or without commands.
LastExtractionRetained ==
    /\ handled = << >> => lastExtractedCommands = << >>
    /\ handled # << >> => lastExtractedCommands = << ChatExtraction[handled[1]] >>

\* an idle event without commands has replaced runnable commands: the
\* notification of the earlier event still offers to run them
LastExtractionReplacedWitness ==
    /\ handled = << Prose >>
    /\ lastExtractedCommands # << >>
    /\ lastExtractedCommands[1].commands = << >>
    /\ \E n \in notifications : \E a \in n.actions : a.title = "Run in Terminal"

Titles(n) == {a.title : a \in n.actions}
ChatIdleNotifications == {n \in notifications : n.id[1] = "chatIdle"}

\* C23: every chat-idle notification offers 'Show Chat', and offers besides it
\* nothing but 'Run in Terminal'; the notification of the idle event handled
\* last offers 'Run in Terminal' exactly when the extraction of that event's
\* content has at least one command.
ChatIdleActions ==
    /\ \A n \in ChatIdleNotifications :
           /\ "Show Chat" \in Titles(n)
           /\ Titles(n) \subseteq {"Show Chat", "Run in Terminal"}
    /\ \A n \in ChatIdleNotifications :
           n.id = <<"chatIdle", shown>> =>
               ("Run in Terminal" \in Titles(n)
                    <=> Len(ChatExtraction[handled[1]].commands) > 0)

\* two notifications are on screen, one with and one without 'Run in Terminal'
ChatIdleActionsWitness ==
    /\ \E n \in ChatIdleNotifications : "Run in Terminal" \in Titles(n)
    /\ \E n \in ChatIdleNotifications :
           n.id = <<"chatIdle", shown>> /\ Titles(n) = {"Show Chat"}

\* C24: a task that was started successfully and whose process has ended has
\* had exactly one task-completion event, with success true exactly when the
\* exit code is 0, in whichever order the process end and the continuation of
\* run() came.
OneCompletionPerTask ==
    settled # << >> =>
        /\ Len(settled[1].events) = 1
        /\ settled[1].events[1].exitCode = settled[1].exitCode
        /\ settled[1].events[1].success <=> (settled[1].exitCode = <<0>>)

\* C25: selecting 'Retry' on the notification of a failed task hands to the
\* runner the commands of that failed task, whatever idle event has been
\* handled since.
RetryRunsFailedCommands ==
    Selected("Retry") =>
        ran[1].requested = << ran[1].captured[1].commands >>

\* a hint that is absent: null, or not passed
NoHint(languageHint) == languageHint \in {Null, Undefined}

\* C32: when the last extracted commands are handed to a runner, the runner
\* receives the language hint of that extraction (or none when the extraction
\* has none), and a task that is started for them has, on either platform,
\* the shell of that hint: PowerShell for a powershell block.
LanguageHintProvided ==
    (ran # << >> /\ ran[1].requested # << >>) =>
        LET stored == lastExtractedCommands[1]
        IN  /\ \/ ran[1].hint = << stored.languageHint >>
               \/ NoHint(ran[1].hint[1]) /\ NoHint(stored.languageHint)
            /\ (useTasks /\ taskCounter \in DOMAIN tasks) =>
                   \A isWindows \in BOOLEAN :
                       tasks[taskCounter].shell[isWindows] =
                           buildShellExecution(stored.commands, stored.languageHint,
                                               isWindows).shell

(* ------------------ properties of the TerminalRunner ------------------- *)
\* what terminal t was sent by call `run` of TerminalRunner.run
SentBy(t, run) == SelectSeq(windowTerminals[t].sent, LAMBDA e : e.run = run)

\* C33: getOrCreateTerminal creates a terminal exactly when no live terminal
\* of the configured name exists, and returns a live one of that name
\* otherwise; at most one live terminal of that name has been sent commands
\* by the runner; every call of run sends to one terminal only, the one it
\* obtained, its commands in list order.
SingleNamedTerminal ==
    /\ obtained # << >> =>
           /\ obtained[1].created <=> obtained[1].live = {}
           /\ ~obtained[1].created => obtained[1].terminal \in obtained[1].live
           /\ windowTerminals[obtained[1].terminal].name = terminalName
           /\ (obtained[1].atStart /\ obtained[1].commands # << >>) =>
                  SentBy(obtained[1].terminal, obtained[1].run) =
                      << [run |-> obtained[1].run, index |-> 1,
                          text |-> preprocessCommand(obtained[1].commands[1])] >>
    /\ Cardinality({t \in LiveNamed : windowTerminals[t].sent # << >>}) <= 1
    /\ \A t \in DOMAIN windowTerminals : \A run \in 1..calls :
           /\ \A i \in DOMAIN SentBy(t, run) : SentBy(t, run)[i].index = i
           /\ SentBy(t, run) # << >> =>
                  \A other \in DOMAIN windowTerminals \ {t} : SentBy(other, run) = << >>
    /\ \A run \in DOMAIN sending :
           LET r == sending[run]
               sent == SentBy(r.terminal, run)
           IN  /\ Len(sent) < r.next
               /\ windowTerminals[r.terminal].exitStatus = Undefined =>
                      Len(sent) = r.next - 1
               /\ \A i \in DOMAIN sent : sent[i].text = preprocessCommand(r.commands[i])

\* a second call of run, made while the terminal of the first is live and
\* the first is still in its delay, is given that terminal, which has
\* commands of both
SingleNamedTerminalWitness ==
    /\ obtained # << >>
    /\ obtained[1].run = 2
    /\ ~obtained[1].created
    /\ 1 \in DOMAIN sending
    /\ sending[1].terminal = obtained[1].terminal
    /\ SentBy(obtained[1].terminal, 1) # << >>
    /\ SentBy(obtained[1].terminal, 2) # << >>

\* the terminal of the first call was closed: the second call created one
NewTerminalWitness ==
    /\ obtained # << >>
    /\ obtained[1].run = 2
    /\ obtained[1].created
    /\ \E t \in DOMAIN windowTerminals :
           /\ windowTerminals[t].exitStatus # Undefined
           /\ SentBy(t, 1) # << >>

(* ------------------ further properties of the detector ----------------- *)
\* C34: a disabled detector tracks no document and has no timer scheduled,
\* and a step that fires an idle event leaves the detector enabled: no idle
\* event is fired while it is disabled.
DisabledIsIdle ==
    /\ ~isEnabled => (documentStates = EmptyMap /\ timers = {})
    /\ emitted # << >> => isEnabled

\* the configuration disabled the detector while an edit was being debounced
DisabledIsIdleWitness ==
    /\ ~isEnabled
    /\ ~config.enabled
    /\ \E d \in Keys : hist[d].tracking = "disabled" /\ hist[d].edits >= 1

\* C35: a tracked document has a timer scheduled, the one its state names,
\* exactly when its change count is at least 1; an idle event fired by a timer
\* carries a change count of at least 1; and the document of an event that
\* has just fired has change count 0 and no timer.
TimerIffChanges ==
    /\ \A d \in Tracked :
           /\ TimersOf(d) # {} <=> documentStates[d].changeCount >= 1
           /\ documentStates[d].timeout # NoTimer <=> documentStates[d].changeCount >= 1
           /\ \A t \in TimersOf(d) : t.id = documentStates[d].timeout
    /\ \A i \in DOMAIN emitted :
           /\ emitted[i].byTimer => EventOf(emitted[i]).changesSinceLastIdle >= 1
           /\ documentStates[EventOf(emitted[i]).document].changeCount = 0
           /\ TimersOf(EventOf(emitted[i]).document) = {}

\* an idle event triggered by hand while the timer of its document was
\* pending: the timer is gone with the count
TimerIffChangesWitness ==
    \E i \in DOMAIN emitted :
        /\ ~emitted[i].byTimer
        /\ emitted[i].edits >= 1
        /\ emitted[i].age < emitted[i].armedSilence
        /\ TimersOf(EventOf(emitted[i]).document) = {}

\* C36: the previousContent of the first idle event after a document became
\* tracked is the text of the document right after the edit that began the
\* tracking; and when a single edit was processed before that event, its
\* previousContent is its currentContent.
FirstPreviousContent ==
    \A i \in DOMAIN emitted :
        emitted[i].first # NoText =>
            /\ EventOf(emitted[i]).previousContent = emitted[i].first
            /\ emitted[i].edits = 1 =>
                   EventOf(emitted[i]).previousContent = EventOf(emitted[i]).currentContent

\* C36, with the single-edit case kept to the events whose currentContent
\* is the text of that edit: the previousContent of the first idle event
\* after a document became tracked is the text right after the edit that
\* began the tracking; when a single edit was processed before that event,
\* and the event was fired by the timer or the text of the document is still
\* that of the edit, its previousContent is its currentContent.
FirstPreviousContentUnchanged ==
    \A i \in DOMAIN emitted :
        emitted[i].first # NoText =>
            LET event == EventOf(emitted[i]) IN
            /\ event.previousContent = emitted[i].first
            /\ (/\ emitted[i].edits = 1
                /\ emitted[i].byTimer \/ docs[event.document].text = emitted[i].first) =>
                   event.previousContent = event.currentContent

\* the first event of a document after two edits: it carries the text of
\* the first edit as previousContent, neither the text before that edit nor
\* the text of the second
FirstPreviousContentWitness ==
    \E i \in DOMAIN emitted :
        /\ emitted[i].first # NoText
        /\ emitted[i].edits = 2
        /\ EventOf(emitted[i]).previousContent = emitted[i].first
        /\ EventOf(emitted[i]).previousContent # InitialText[EventOf(emitted[i]).document]
        /\ EventOf(emitted[i]).previousContent # EventOf(emitted[i]).currentContent

\* C37: a change notification that carries no content changes leaves the
\* detector as it met it: every state with its change count, every timer
\* with the time it has left, the tracked set and the enabled flag.
EmptyChangeIgnored ==
    skipped # << >> =>
        /\ isEnabled = skipped[1].isEnabled
        /\ documentStates = skipped[1].states
        /\ timers = skipped[1].timers

\* such a notification for a matching document that is being debounced
EmptyChangeWitness ==
    /\ skipped # << >>
    /\ isEnabled
    /\ matchesChat(config.chatMatchers, Documents[skipped[1].document])
    /\ skipped[1].document \in Tracked
    /\ documentStates[skipped[1].document].changeCount >= 1
    /\ TimersOf(skipped[1].document) # {}

\* such a notification for a matching document that is not tracked
EmptyChangeUntrackedWitness ==
    /\ skipped # << >>
    /\ isEnabled
    /\ matchesChat(config.chatMatchers, Documents[skipped[1].document])
    /\ skipped[1].document \notin Tracked

\* C38: running the last extracted commands warns exactly when no extraction
\* is stored or the stored one has no commands; it then hands nothing to a
\* runner and leaves the stored extraction, the task counter, the tasks and
\* what the terminal was sent as it met them.
NothingToRun ==
    (ran # << >> /\ ran[1].title # "Show Chat") =>
        /\ ran[1].warned <=>
               \/ lastExtractedCommands = << >>
               \/ Len(lastExtractedCommands[1].commands) = 0
        /\ ran[1].warned =>
               /\ ran[1].requested = << >>
               /\ ran[1].met = << Stored >>

\* 'Run in Terminal' pressed on the notification of an earlier idle event,
\* the extraction stored since having no commands
NothingToRunWitness ==
    /\ Selected("Run in Terminal")
    /\ ran[1].warned
    /\ lastExtractedCommands # << >>
    /\ ran[1].met = << Stored >>

\* the command invoked with nothing stored
NothingStoredWitness ==
    /\ Selected("Run Last Extracted")
    /\ ran[1].warned
    /\ lastExtractedCommands = << >>

====
